---- MODULE Spec2Model ----
(***************************************************************************)
(* planloop: session state model, scheduler (compute_now), update          *)
(* pipeline and the filesystem lock with its FIFO queue.                   *)
(*                                                                         *)
(* Time is the wall clock in seconds (time.time()), advanced by Tick.      *)
(* A session directory holds state.json (disk), .lock (lock_file),         *)
(* .lock_info (lock_info), .lock_queue/ (queue) and deadlock.json          *)
(* (tracker_file).                                                         *)
(***************************************************************************)
EXTENDS Integers, Sequences, FiniteSets, TLC

VARIABLES
    disk,          \* state.json: the persisted SessionState
    lock_file,     \* .lock exists
    lock_info,     \* .lock_info: held_by, or NoHolder when the file is absent
    queue,         \* .lock_queue/: the set of QueueEntry files
    tracker_file,  \* deadlock.json: the persisted DeadlockTracker
    clock,         \* time.time()
    ticks,         \* clock advances so far
    pc,            \* position of each process in its command
    cmd,           \* the command each process runs
    mem,           \* the SessionState each process loaded (_load_session)
    start,         \* acquire_lock: start of each process
    tracker,       \* acquire_lock: the DeadlockTracker object of each process
    stall,         \* acquire_lock: queue_stall_detected, queue_stall_head
    ret,           \* what each command returned
    status_calls,  \* planloop status: the calls so far
    state_json,    \* the text of state.json where its writes are single steps
    registry,      \* index.json: the SessionSummary list of the registry
    loaded,        \* upsert_session: the entries each process loaded
    arg,           \* pure-function specifications: the state under test
    res            \* pure-function specifications: the result

\* the files that save_session_state writes step by step
save_vars == <<state_json, registry, loaded>>

vars == <<disk, lock_file, lock_info, queue, tracker_file, clock, ticks, pc, cmd,
          mem, start, tracker, stall, ret, status_calls, save_vars, arg, res>>

session_vars == <<disk, lock_file, lock_info, queue, tracker_file, clock, ticks,
                  pc, cmd, mem, start, tracker, stall, ret, status_calls, save_vars>>

\* ------------------------------------------------------------------ bounds
\* tasks of a session and updates applied to it in the sequential specifications
MaxTasks == 2
MaxVersion == 4
\* clock advances per behaviour
MaxTicks == 2
\* tasks and signals of the states given to the pure functions
MaxArgTasks == 2
MaxArgSignals == 2
\* queue scans counted by one DeadlockTracker
MaxStallCounter == 5

\* deadlock checks counted by one DeadlockTracker, status calls of one agent
MaxNoProgress == 11
MaxStatusCalls == 10
\* write() calls that carry the text of one state.json
TextWrites == 2

\* ------------------------------------------------------- program constants
DEFAULT_TIMEOUT == 30
QUEUE_STALL_THRESHOLD == 5
DEADLOCK_THRESHOLD == 10

\* ------------------------------------------------------------- data model
TaskStatus ==
    {"TODO", "IN_PROGRESS", "DONE", "BLOCKED", "SKIPPED", "OUT_OF_SCOPE",
     "CANCELLED", "FAILED", "WAITING"}

SignalLevel == {"blocker", "high", "info"}

TaskType ==
    {"test", "fix", "refactor", "feature", "doc", "chore", "design", "investigate"}

\* None in an Optional field
NoTask == 0
NoSignal == "none"
NoTitle == "none"
NoType == "none"
NoStatus == "none"
NoSummary == "none"

\* Now(reason, task_id, signal_id)
Now(reason, task_id, signal_id) ==
    [reason |-> reason, task_id |-> task_id, signal_id |-> signal_id]

\* Task(id, title, type, status, depends_on); status defaults to TODO
Task(id, title, type, status, depends_on) ==
    [id |-> id, title |-> title, type |-> type, status |-> status,
     depends_on |-> depends_on]

\* Signal(id, level, open); open defaults to TRUE
Signal(id, level, open) == [id |-> id, level |-> level, open |-> open]

Min(S) == CHOOSE x \in S : \A y \in S : x <= y
Max(S) == CHOOSE x \in S : \A y \in S : x >= y

\* ------------------------------------------------------------- scheduler
\* SessionState._task_done: the first task with that id decides
task_done(tasks, task_id) ==
    LET idx == {i \in DOMAIN tasks : tasks[i].id = task_id}
    IN  IF idx = {} THEN FALSE ELSE tasks[Min(idx)].status = "DONE"

\* compute_now with rules 1 and 2 exchanged: an IN_PROGRESS task before a blocker
compute_now_prio_swapped(tasks, signals) ==
    LET blockers == SelectSeq(signals, LAMBDA s : s.open /\ s.level = "blocker")
        in_progress == SelectSeq(tasks, LAMBDA t : t.status = "IN_PROGRESS")
        ready_tasks == SelectSeq(tasks, LAMBDA t :
                          /\ t.status = "TODO"
                          /\ \A dep \in t.depends_on : task_done(tasks, dep))
    IN  IF Len(in_progress) > 0
          THEN Now("task", in_progress[1].id, NoSignal)
        ELSE IF Len(blockers) > 0
          THEN Now("ci_blocker", NoTask, blockers[1].id)
        ELSE IF Len(ready_tasks) > 0
          THEN Now("task", ready_tasks[1].id, NoSignal)
        ELSE IF Len(tasks) > 0 /\ \A i \in DOMAIN tasks :
                  tasks[i].status \in {"DONE", "OUT_OF_SCOPE", "SKIPPED"}
          THEN Now("completed", NoTask, NoSignal)
        ELSE Now("idle", NoTask, NoSignal)

\* compute_now with any() for all() in the completed rule
compute_now_any_complete(tasks, signals) ==
    LET blockers == SelectSeq(signals, LAMBDA s : s.open /\ s.level = "blocker")
        in_progress == SelectSeq(tasks, LAMBDA t : t.status = "IN_PROGRESS")
        ready_tasks == SelectSeq(tasks, LAMBDA t :
                          /\ t.status = "TODO"
                          /\ \A dep \in t.depends_on : task_done(tasks, dep))
    IN  IF Len(blockers) > 0
          THEN Now("ci_blocker", NoTask, blockers[1].id)
        ELSE IF Len(in_progress) > 0
          THEN Now("task", in_progress[1].id, NoSignal)
        ELSE IF Len(ready_tasks) > 0
          THEN Now("task", ready_tasks[1].id, NoSignal)
        ELSE IF Len(tasks) > 0 /\ \E i \in DOMAIN tasks :
                  tasks[i].status \in {"DONE", "OUT_OF_SCOPE", "SKIPPED"}
          THEN Now("completed", NoTask, NoSignal)
        ELSE Now("idle", NoTask, NoSignal)

\* compute_now that offers a task before it looks at the blockers
compute_now_tasks_first(tasks, signals) ==
    LET blockers == SelectSeq(signals, LAMBDA s : s.open /\ s.level = "blocker")
        in_progress == SelectSeq(tasks, LAMBDA t : t.status = "IN_PROGRESS")
        ready_tasks == SelectSeq(tasks, LAMBDA t :
                          /\ t.status = "TODO"
                          /\ \A dep \in t.depends_on : task_done(tasks, dep))
    IN  IF Len(in_progress) > 0
          THEN Now("task", in_progress[1].id, NoSignal)
        ELSE IF Len(ready_tasks) > 0
          THEN Now("task", ready_tasks[1].id, NoSignal)
        ELSE IF Len(blockers) > 0
          THEN Now("ci_blocker", NoTask, blockers[1].id)
        ELSE IF Len(tasks) > 0 /\ \A i \in DOMAIN tasks :
                  tasks[i].status \in {"DONE", "OUT_OF_SCOPE", "SKIPPED"}
          THEN Now("completed", NoTask, NoSignal)
        ELSE Now("idle", NoTask, NoSignal)

\* SessionState.compute_now on the tasks and signals of a state
compute_now(tasks, signals) ==
    LET blockers == SelectSeq(signals, LAMBDA s : s.open /\ s.level = "blocker")
        in_progress == SelectSeq(tasks, LAMBDA t : t.status = "IN_PROGRESS")
        ready_tasks == SelectSeq(tasks, LAMBDA t :
                          /\ t.status = "TODO"
                          /\ \A dep \in t.depends_on : task_done(tasks, dep))
    IN  IF Len(blockers) > 0
          THEN Now("ci_blocker", NoTask, blockers[1].id)
        ELSE IF Len(in_progress) > 0
          THEN Now("task", in_progress[1].id, NoSignal)
        ELSE IF Len(ready_tasks) > 0
          THEN Now("task", ready_tasks[1].id, NoSignal)
        ELSE IF Len(tasks) > 0 /\ \A i \in DOMAIN tasks :
                  tasks[i].status \in {"DONE", "OUT_OF_SCOPE", "SKIPPED"}
          THEN Now("completed", NoTask, NoSignal)
        ELSE Now("idle", NoTask, NoSignal)

\* -------------------------------------------------------------- validator
\* _check_unique_task_ids: no error
unique_task_ids(tasks) ==
    \A i, j \in DOMAIN tasks : i # j => tasks[i].id # tasks[j].id

\* _check_dependencies: no error
dependencies_ok(tasks) ==
    LET valid_ids == {tasks[i].id : i \in DOMAIN tasks}
    IN  \A i \in DOMAIN tasks : \A dep \in tasks[i].depends_on :
            dep \in valid_ids /\ dep # tasks[i].id

\* graph of _detect_cycles: the last task with an id gives its edges
\* (dict comprehension), edges to ids outside the graph are skipped
graph_edges(tasks, node) ==
    LET idx == {i \in DOMAIN tasks : tasks[i].id = node}
        ids == {tasks[i].id : i \in DOMAIN tasks}
    IN  IF idx = {} THEN {} ELSE tasks[Max(idx)].depends_on \cap ids

\* nodes reachable from the nodes of S in at most n steps over graph_edges
RECURSIVE reach_from(_, _, _)
reach_from(tasks, S, n) ==
    IF n = 0 THEN S
    ELSE LET nxt == S \cup UNION {graph_edges(tasks, x) : x \in S}
         IN  IF nxt = S THEN S ELSE reach_from(tasks, nxt, n - 1)

\* _detect_cycles: TRUE when the DFS meets a node it is visiting
detect_cycles(tasks) ==
    LET ids == {tasks[i].id : i \in DOMAIN tasks}
    IN  \E node \in ids :
            node \in reach_from(tasks, graph_edges(tasks, node), Cardinality(ids))

\* ------------------------------------------------------ session directory
Procs == {"p1", "p2", "p3"}
\* the processes that run commands of the command line
CmdProcs == {"p1", "p2"}
NoHolder == "none"
NoHead == "none"

\* the session of the model, and the id of a session that does not exist
SessionId == "s1"
OtherSessionId == "s2"

\* an in-memory SessionState; the other lists default to empty
SessionState(version, tasks, signals, now) ==
    [session |-> SessionId, version |-> version, tasks |-> tasks,
     signals |-> signals, now |-> now, context_notes |-> <<>>,
     next_steps |-> <<>>, artifacts |-> <<>>, done |-> FALSE,
     final_summary |-> NoSummary]

\* _initial_state: empty lists, now = idle, version 1
initial_state == SessionState(1, <<>>, <<>>, Now("idle", NoTask, NoSignal))

\* _compute_hash: the digest of a state is the one-element sequence of the
\* state (the model has no last_updated_at), the empty string is <<>>
NoHash == <<>>
compute_hash(st) == <<st>>

\* DeadlockTracker(): last_state_hash "", no_progress_counter 0,
\* queue_head None, queue_stall_counter 0
new_tracker ==
    [last_state_hash |-> NoHash, no_progress_counter |-> 0,
     queue_head |-> NoHead, queue_stall_counter |-> 0]

\* state.model_dump_json(indent=2): the text of a state, which reaches the
\* file in TextWrites writes; a text is the state it spells and the writes
\* of it that the file holds
model_dump_json(st) == [data |-> st, len |-> TextWrites]

\* the file after open(mode="w"): truncated
EmptyText == [len |-> 0]

\* f.write(data): one more write of the text of st has reached the file
write_text_step(text, st) == [data |-> st, len |-> text.len + 1]

\* pydantic's ValidationError for a text that is no complete JSON document
ValidationError == [status |-> "validation_error", version |-> 0]

\* SessionState.model_validate_json(text) in _load_session
model_validate_json(text) ==
    IF text.len = TextWrites
      THEN [status |-> "loaded", version |-> text.data.version, state |-> text.data]
      ELSE ValidationError

\* SessionSummary of a session: session and last_updated_at
SessionSummary(session, last_updated_at) ==
    [session |-> session, last_updated_at |-> last_updated_at]

NoCmd == [kind |-> "none"]
NoRet == [status |-> "none", version |-> 0]
NoStall == [detected |-> FALSE, head |-> NoHead]
NoRes == Now("unset", NoTask, NoSignal)

\* the session directory after create_session, no process started
InitSession ==
    /\ disk = initial_state
    /\ lock_file = FALSE
    /\ lock_info = NoHolder
    /\ queue = {}
    /\ tracker_file = new_tracker
    /\ clock = 0
    /\ ticks = 0
    /\ pc = [p \in Procs |-> "idle"]
    /\ cmd = [p \in Procs |-> NoCmd]
    /\ mem = [p \in Procs |-> initial_state]
    /\ start = [p \in Procs |-> 0]
    /\ tracker = [p \in Procs |-> new_tracker]
    /\ stall = [p \in Procs |-> NoStall]
    /\ ret = [p \in Procs |-> NoRet]
    /\ status_calls = 0
    /\ state_json = model_dump_json(initial_state)
    /\ registry = <<SessionSummary(SessionId, 0)>>
    /\ loaded = [p \in Procs |-> <<>>]

\* ---------------------------------------------------------------- signals
\* open_signal: a duplicate id raises ValueError
open_signal_ok(st, sig) == \A i \in DOMAIN st.signals : st.signals[i].id # sig.id

\* open_signal: append, recompute now
open_signal(st, sig) ==
    LET signals == Append(st.signals, sig)
    IN  [st EXCEPT !.signals = signals, !.now = compute_now(st.tasks, signals)]

\* close_signal: an unknown id raises ValueError
close_signal_ok(st, signal_id) == \E i \in DOMAIN st.signals : st.signals[i].id = signal_id

\* a close_signal that leaves now as it was
close_signal_stale_now(st, signal_id) ==
    LET target == Min({i \in DOMAIN st.signals : st.signals[i].id = signal_id})
    IN  [st EXCEPT !.signals = [st.signals EXCEPT ![target].open = FALSE]]

\* close_signal: the first signal with that id gets open = False, recompute now
close_signal(st, signal_id) ==
    LET target == Min({i \in DOMAIN st.signals : st.signals[i].id = signal_id})
        signals == [st.signals EXCEPT ![target].open = FALSE]
    IN  [st EXCEPT !.signals = signals, !.now = compute_now(st.tasks, signals)]

\* ----------------------------------------------------------------- update
\* a string of decimal digits is the sequence of its digits
RECURSIVE str(_)
str(n) == IF n < 10 THEN <<n>> ELSE Append(str(n \div 10), n % 10)

\* last_seen_version in the JSON: absent, a string or an integer
NoVersion == [kind |-> "none"]
StrVersion(digits) == [kind |-> "str", value |-> digits]
IntVersion(n) == [kind |-> "int", value |-> n]

\* UpdatePayload(last_seen_version, tasks, add_tasks): the other fields at
\* their defaults, session the session of the model; extra holds the
\* top-level keys of the JSON that are no field of UpdatePayload
UpdatePayload(last_seen_version, tasks, add_tasks) ==
    [session |-> SessionId, last_seen_version |-> last_seen_version,
     tasks |-> tasks, add_tasks |-> add_tasks, update_tasks |-> <<>>,
     context_notes |-> <<>>, next_steps |-> <<>>, artifacts |-> <<>>,
     final_summary |-> NoSummary, extra |-> {}]

\* TaskStatusPatch(id, status, new_title)
TaskStatusPatch(id, status, new_title) ==
    [id |-> id, status |-> status, new_title |-> new_title]

\* UpdateTaskInput(id, new_title, new_type, status)
UpdateTaskInput(id, new_title, new_type, status) ==
    [id |-> id, new_title |-> new_title, new_type |-> new_type, status |-> status]

\* AddTaskInput(title, type, depends_on)
AddTaskInput(title, type, depends_on) ==
    [title |-> title, type |-> type, depends_on |-> depends_on]

\* UpdatePayload.model_validate: an integer last_seen_version becomes its
\* decimal string, keys that are no field are dropped
model_validate(raw) ==
    [raw EXCEPT !.last_seen_version =
                    IF @.kind = "int" THEN StrVersion(str(@.value)) ELSE @,
                !.extra = {}]

\* validate_update_payload: no UpdateError
validate_update_payload(st, payload) ==
    /\ ~(payload.session # "" /\ payload.session # st.session)
    /\ ~(/\ payload.last_seen_version.kind = "str"
          /\ Len(payload.last_seen_version.value) > 0
          /\ payload.last_seen_version.value # str(st.version))

\* a next id taken from the number of tasks
next_task_id_by_count(tasks) == Len(tasks) + 1

\* _next_task_id
next_task_id(tasks) ==
    IF Len(tasks) = 0 THEN 1 ELSE Max({tasks[i].id : i \in DOMAIN tasks}) + 1

\* apply_update: every patch and every update names a known task id
apply_update_ok(st, payload) ==
    /\ \A k \in DOMAIN payload.tasks :
          \E i \in DOMAIN st.tasks : st.tasks[i].id = payload.tasks[k].id
    /\ \A k \in DOMAIN payload.update_tasks :
          \E i \in DOMAIN st.tasks : st.tasks[i].id = payload.update_tasks[k].id

\* _apply_task_patch
apply_task_patch(task, patch) ==
    [task EXCEPT !.status = IF patch.status # NoStatus THEN patch.status ELSE @,
                 !.title = IF patch.new_title # NoTitle THEN patch.new_title ELSE @]

\* _apply_update_task
apply_update_task(task, upd) ==
    [task EXCEPT !.title = IF upd.new_title # NoTitle THEN upd.new_title ELSE @,
                 !.type = IF upd.new_type # NoType THEN upd.new_type ELSE @,
                 !.status = IF upd.status # NoStatus THEN upd.status ELSE @]

\* the loop over payload.tasks: _apply_task_patch on id_to_task[patch.id]
RECURSIVE apply_patches(_, _)
apply_patches(tasks, patches) ==
    IF Len(patches) = 0 THEN tasks
    ELSE LET patch == Head(patches)
             at == Max({i \in DOMAIN tasks : tasks[i].id = patch.id})
         IN  apply_patches([tasks EXCEPT ![at] = apply_task_patch(@, patch)],
                           Tail(patches))

\* the loop over payload.update_tasks: _apply_update_task on id_to_task[upd.id]
RECURSIVE apply_update_tasks(_, _)
apply_update_tasks(tasks, updates) ==
    IF Len(updates) = 0 THEN tasks
    ELSE LET upd == Head(updates)
             at == Max({i \in DOMAIN tasks : tasks[i].id = upd.id})
         IN  apply_update_tasks([tasks EXCEPT ![at] = apply_update_task(@, upd)],
                                Tail(updates))

\* the loop over payload.add_tasks: _add_new_task with next_id, next_id + 1, ...
add_new_tasks(tasks, adds) ==
    tasks \o [k \in DOMAIN adds |->
                 Task(next_task_id(tasks) + k - 1, adds[k].title,
                      IF adds[k].type # NoType THEN adds[k].type ELSE "feature",
                      "TODO", adds[k].depends_on)]

\* apply_update: patches, updates, additions, the other fields, version += 1,
\* now = compute_now()
apply_update(st, payload) ==
    LET tasks == add_new_tasks(
                     apply_update_tasks(apply_patches(st.tasks, payload.tasks),
                                        payload.update_tasks),
                     payload.add_tasks)
    IN  [st EXCEPT !.tasks = tasks,
                   !.context_notes = IF Len(payload.context_notes) > 0
                                       THEN payload.context_notes ELSE @,
                   !.next_steps = IF Len(payload.next_steps) > 0
                                    THEN payload.next_steps ELSE @,
                   !.artifacts = @ \o payload.artifacts,
                   !.final_summary = IF payload.final_summary # NoSummary
                                       THEN payload.final_summary ELSE @,
                   !.version = st.version + 1,
                   !.now = compute_now(tasks, st.signals)]

\* validate_state without _detect_cycles
validate_state_no_cycles(st) ==
    /\ unique_task_ids(st.tasks)
    /\ dependencies_ok(st.tasks)
    /\ st.now = compute_now(st.tasks, st.signals)

\* validate_state: no StateValidationError
validate_state(st) ==
    /\ unique_task_ids(st.tasks)
    /\ dependencies_ok(st.tasks)
    /\ ~detect_cycles(st.tasks)
    /\ st.now = compute_now(st.tasks, st.signals)

\* a message of the StateValidationError: what it reports, the task and the
\* dependency it names (0 when it names none)
ValidationMessage(about, task, dep) == [about |-> about, task |-> task, dep |-> dep]

\* _check_unique_task_ids: one message for each task whose id was seen before
check_unique_task_ids(tasks) ==
    {ValidationMessage("duplicate", tasks[j].id, 0) :
        j \in {j \in DOMAIN tasks : \E i \in 1..(j - 1) : tasks[i].id = tasks[j].id}}

\* _check_dependencies: unknown targets and tasks that depend on themselves
check_dependencies(tasks) ==
    LET valid_ids == {tasks[i].id : i \in DOMAIN tasks}
    IN  UNION {{ValidationMessage("unknown", tasks[i].id, dep) :
                   dep \in tasks[i].depends_on \ valid_ids}
               \cup {ValidationMessage("self", tasks[i].id, dep) :
                        dep \in tasks[i].depends_on \cap {tasks[i].id}}
               : i \in DOMAIN tasks}

\* a validate_state that raises at the first check that finds something
validate_state_errors_first_check(st) ==
    IF check_unique_task_ids(st.tasks) # {} THEN check_unique_task_ids(st.tasks)
    ELSE IF check_dependencies(st.tasks) # {} THEN check_dependencies(st.tasks)
    ELSE IF detect_cycles(st.tasks) THEN {ValidationMessage("cycle", 0, 0)}
    ELSE IF st.now # compute_now(st.tasks, st.signals)
      THEN {ValidationMessage("now", 0, 0)}
    ELSE {}

\* validate_state: the messages of its error, empty when it returns; the
\* messages are kept as a set, their order in the text is left out
validate_state_errors(st) ==
    check_unique_task_ids(st.tasks)
    \cup check_dependencies(st.tasks)
    \cup (IF detect_cycles(st.tasks) THEN {ValidationMessage("cycle", 0, 0)} ELSE {})
    \cup (IF st.now # compute_now(st.tasks, st.signals)
            THEN {ValidationMessage("now", 0, 0)} ELSE {})

\* ------------------------------------------------------------- lock queue
\* QueueEntry(id, agent, requested_at); id and agent are the process
QueueEntry(p, requested_at) == [id |-> p, agent |-> p, requested_at |-> requested_at]

\* requested_at is a float: two entries of the same clock second are ordered
\* by arrival, and processes arrive in the order p1, p2, p3
arrival(id) == CASE id = "p1" -> 1 [] id = "p2" -> 2 [] OTHER -> 3

\* _prune_stale_entries that keeps every entry
prune_stale_entries_keep_all(entries, now, max_age) == entries

\* _prune_stale_entries: the entries kept
prune_stale_entries(entries, now, max_age) ==
    {e \in entries : ~(now - e.requested_at > max_age)}

\* order of _load_raw_queue_entries: sorted by requested_at
entry_before(a, b) ==
    \/ a.requested_at < b.requested_at
    \/ a.requested_at = b.requested_at /\ arrival(a.id) < arrival(b.id)

\* entries[0] if entries else None
queue_head(entries) ==
    IF entries = {} THEN NoHead
    ELSE (CHOOSE e \in entries : \A o \in entries \ {e} : entry_before(e, o)).id

\* a queue file <id>.json with its content; file names are numbered in
\* their sorted order
QueueFile(id, agent, requested_at) ==
    [id |-> id, agent |-> agent, requested_at |-> requested_at]

\* sorted(queue_dir.iterdir()), then the stable sort by requested_at
file_before(a, b) ==
    \/ a.requested_at < b.requested_at
    \/ a.requested_at = b.requested_at /\ a.id < b.id

\* _load_raw_queue_entries: the list of the entries of the files
RECURSIVE load_raw_queue_entries(_)
load_raw_queue_entries(files) ==
    IF files = {} THEN <<>>
    ELSE LET first == CHOOSE e \in files : \A o \in files \ {e} : file_before(e, o)
         IN  <<first>> \o load_raw_queue_entries(files \ {first})

\* _load_queue_entries: the list _prune_stale_entries keeps
load_queue_entries(files, now, max_age) ==
    SelectSeq(load_raw_queue_entries(files),
              LAMBDA e : ~(now - e.requested_at > max_age))

\* agent=None, and position None
NoAgent == "none"
NoPosition == 0

\* a position counted from 0
queue_position_from_zero(entries, agent) ==
    LET idx == {i \in DOMAIN entries : entries[i].agent = agent}
    IN  IF agent = NoAgent \/ idx = {} THEN NoPosition ELSE Min(idx) - 1

\* the loop of get_lock_queue_status: idx + 1 of the first entry of the agent
queue_position(entries, agent) ==
    LET idx == {i \in DOMAIN entries : entries[i].agent = agent}
    IN  IF agent = NoAgent \/ idx = {} THEN NoPosition ELSE Min(idx)

\* get_lock_queue_status: LockQueueStatus and the queue files it leaves
get_lock_queue_status(files, now, agent, max_age) ==
    LET entries == load_queue_entries(files, now, max_age)
    IN  [pending |-> entries,
         position |-> queue_position(entries, agent),
         files |-> prune_stale_entries(files, now, max_age)]

\* a register_queue_head that counts a new head from 0
register_queue_head_from_zero(tr, head_agent, should_track) ==
    IF ~should_track \/ head_agent = NoHead
      THEN [tr EXCEPT !.queue_head = NoHead, !.queue_stall_counter = 0]
    ELSE IF tr.queue_head # head_agent
      THEN [tr EXCEPT !.queue_head = head_agent, !.queue_stall_counter = 0]
    ELSE [tr EXCEPT !.queue_stall_counter = tr.queue_stall_counter + 1]

\* DeadlockTracker.register_queue_head: the tracker afterwards
register_queue_head(tr, head_agent, should_track) ==
    IF ~should_track \/ head_agent = NoHead
      THEN [tr EXCEPT !.queue_head = NoHead, !.queue_stall_counter = 0]
    ELSE IF tr.queue_head # head_agent
      THEN [tr EXCEPT !.queue_head = head_agent, !.queue_stall_counter = 1]
    ELSE [tr EXCEPT !.queue_stall_counter = tr.queue_stall_counter + 1]

\* _emit_queue_stall_signal without the assignment to state.now
emit_queue_stall_signal_no_override(st) ==
    LET signal == Signal("queue_stall", "blocker", TRUE)
    IN  IF \E i \in DOMAIN st.signals :
               st.signals[i].id = "queue_stall" /\ st.signals[i].open
          THEN st
        ELSE IF ~open_signal_ok(st, signal)
          THEN st
        ELSE open_signal(st, signal)

\* _emit_queue_stall_signal: the state.json it leaves, given the one it loads
emit_queue_stall_signal(st) ==
    LET signal == Signal("queue_stall", "blocker", TRUE)
    IN  IF \E i \in DOMAIN st.signals :
               st.signals[i].id = "queue_stall" /\ st.signals[i].open
          THEN st
        ELSE IF ~open_signal_ok(st, signal)
          THEN st
        ELSE [open_signal(st, signal)
                 EXCEPT !.now = Now("waiting_on_lock", NoTask, "queue_stall")]

\* --------------------------------------------------------------- deadlock
\* check_deadlock with a counter that starts at 1 on a new hash
check_deadlock_tracker_from_one(tr, st) ==
    IF compute_hash(st) = tr.last_state_hash
      THEN [tr EXCEPT !.no_progress_counter = @ + 1]
    ELSE [tr EXCEPT !.last_state_hash = compute_hash(st), !.no_progress_counter = 1]

\* check_deadlock: the tracker it persists, given the one it reads
check_deadlock_tracker(tr, st) ==
    IF compute_hash(st) = tr.last_state_hash
      THEN [tr EXCEPT !.no_progress_counter = @ + 1]
    ELSE [tr EXCEPT !.last_state_hash = compute_hash(st), !.no_progress_counter = 0]

\* check_deadlock that appends its signal at every escalation
check_deadlock_state_always_append(tr, st, threshold) ==
    IF check_deadlock_tracker(tr, st).no_progress_counter >= threshold
      THEN [st EXCEPT !.signals = Append(@, Signal("deadlock", "blocker", TRUE)),
                      !.now = Now("deadlocked", NoTask, "deadlock")]
    ELSE st

\* check_deadlock: the state it returns (the argument, changed in place)
check_deadlock_state(tr, st, threshold) ==
    IF check_deadlock_tracker(tr, st).no_progress_counter >= threshold
      THEN [st EXCEPT !.signals = IF \E i \in DOMAIN @ : @[i].id = "deadlock"
                                    THEN @
                                    ELSE Append(@, Signal("deadlock", "blocker", TRUE)),
                      !.now = Now("deadlocked", NoTask, "deadlock")]
    ELSE st

\* --------------------------------------------------------------- commands
Timeouts == {0, 1, DEFAULT_TIMEOUT}
AlertIds == {"ci1", "ci2"}
TickSteps == {1, DEFAULT_TIMEOUT + 1}

PayloadAdd == UpdatePayload(NoVersion, <<>>, <<AddTaskInput("a", NoType, {})>>)
PayloadAddSeen ==
    UpdatePayload(StrVersion(<<1>>), <<>>, <<AddTaskInput("a", NoType, {})>>)
PayloadDone == UpdatePayload(NoVersion, <<TaskStatusPatch(1, "DONE", NoTitle)>>, <<>>)
PayloadAddDep == UpdatePayload(NoVersion, <<>>, <<AddTaskInput("a", NoType, {1})>>)
UpdatePayloads == {PayloadAdd, PayloadAddSeen, PayloadDone, PayloadAddDep}

\* the options of `planloop update`: --session, --dry-run/--no-dry-run,
\* --no-plan-edit/--allow-plan-edit, --strict/--allow-extra-fields;
\* session "" and a flag "unset" are options not given
CliOpts(session, dry_run, no_plan_edit, strict) ==
    [session |-> session, dry_run |-> dry_run, no_plan_edit |-> no_plan_edit,
     strict |-> strict]

FlagValues == {"unset", "on", "off"}

\* safe_mode_defaults() when the config sets nothing
no_config == [dry_run |-> FALSE, no_plan_edit |-> FALSE, strict |-> FALSE]

\* safe_mode_defaults() over every config
SafeModeDefaults == [dry_run : BOOLEAN, no_plan_edit : BOOLEAN, strict : BOOLEAN]

\* a safe mode that only the flag switches on
enabled_flag_only(flag, default) == flag = "on"

\* defaults[name] if flag is None else flag
enabled(flag, default) == IF flag = "unset" THEN default ELSE flag = "on"

\* the keys a strict update accepts
allowed ==
    {"session", "last_seen_version", "tasks", "add_tasks", "update_tasks",
     "context_notes", "next_steps", "artifacts", "agent", "final_summary", "done"}

\* the keys of the parsed payload, which has dropped every unknown key
unknown_fields_of_parsed(raw) == {}

\* set(raw_payload.keys()) - allowed; the fields of UpdatePayload are allowed
unknown_fields(raw) == raw.extra \ allowed

\* a check that forgets artifacts
structural_edit_without_artifacts(payload) ==
    \/ Len(payload.add_tasks) > 0
    \/ Len(payload.update_tasks) > 0
    \/ Len(payload.context_notes) > 0
    \/ Len(payload.next_steps) > 0

\* the payload carries what --no-plan-edit rejects
structural_edit(payload) ==
    \/ Len(payload.add_tasks) > 0
    \/ Len(payload.update_tasks) > 0
    \/ Len(payload.context_notes) > 0
    \/ Len(payload.next_steps) > 0
    \/ Len(payload.artifacts) > 0

\* the command as typed: the JSON, the options, and the config it runs under
UpdateCmd(raw, opts, defaults) ==
    [kind |-> "update", payload |-> raw, opts |-> opts, defaults |-> defaults,
     timeout |-> DEFAULT_TIMEOUT]
AlertCmd(id, level, close) ==
    [kind |-> "alert", id |-> id, level |-> level, close |-> close,
     timeout |-> DEFAULT_TIMEOUT]
LockCmd(timeout) == [kind |-> "lock", timeout |-> timeout]
CheckCmd(threshold, fresh) == [kind |-> "check", threshold |-> threshold, fresh |-> fresh]

Ret(status, version) == [status |-> status, version |-> version]

\* TimeoutError and the holder its message names: Unnamed for
\* "Lock already held", "unknown" when .lock_info gives none
Unnamed == "unnamed"
TimeoutError(holder) == [status |-> "timeout", version |-> 0, holder |-> holder]

\* processes are started in the order p1, p2, p3
MayBegin(p) ==
    /\ pc[p] = "idle"
    /\ \A q \in Procs : arrival(q) < arrival(p) => pc[q] # "idle"

\* acquire_lock up to the loop: start, queue entry, tracker from deadlock.json
EnterQueue(p) ==
    /\ start' = [start EXCEPT ![p] = clock]
    /\ queue' = queue \cup {QueueEntry(p, clock)}
    /\ tracker' = [tracker EXCEPT ![p] = tracker_file]
    /\ stall' = [stall EXCEPT ![p] = NoStall]
    /\ pc' = [pc EXCEPT ![p] = "waiting"]

\* the process is over: its memory is gone
Exit(p, outcome, r) ==
    /\ pc' = [pc EXCEPT ![p] = outcome]
    /\ cmd' = [cmd EXCEPT ![p] = IF outcome # "crashed" /\ cmd[p].kind # "lock"
                                    THEN cmd[p] ELSE [kind |-> cmd[p].kind]]
    /\ ret' = [ret EXCEPT ![p] = r]
    /\ mem' = [mem EXCEPT ![p] = initial_state]
    /\ tracker' = [tracker EXCEPT ![p] = new_tracker]
    /\ stall' = [stall EXCEPT ![p] = NoStall]
    /\ start' = [start EXCEPT ![p] = 0]

\* the command c ends before acquire_lock
ExitEarly(p, c, outcome, r) ==
    /\ pc' = [pc EXCEPT ![p] = outcome]
    /\ cmd' = [cmd EXCEPT ![p] = c]
    /\ ret' = [ret EXCEPT ![p] = r]
    /\ UNCHANGED <<mem, tracker, stall, start>>

\* a release that runs only when the body ended without an exception
Leave_on_success_only(p, q, outcome, r) ==
    /\ lock_file' = IF outcome = "done" THEN FALSE ELSE lock_file
    /\ lock_info' = IF outcome = "done" THEN NoHolder ELSE lock_info
    /\ queue' = q \ {e \in q : e.id = p}
    /\ Exit(p, outcome, r)

\* the finally block of acquire_lock, on the queue files q, then the exit
Leave(p, q, outcome, r) ==
    /\ lock_file' = FALSE
    /\ lock_info' = NoHolder
    /\ queue' = q \ {e \in q : e.id = p}
    /\ Exit(p, outcome, r)

\* planloop update up to acquire_lock: parse, load the target session,
\* strict, no_plan_edit, validate_update_payload, dry run
BeginUpdate(p, raw, opts, defaults) ==
    /\ MayBegin(p)
    /\ LET payload == model_validate(raw)
           c == UpdateCmd(raw, opts, defaults)
           target_session == IF opts.session # "" THEN opts.session ELSE payload.session
       IN  IF target_session \notin {"", SessionId}
             THEN /\ ExitEarly(p, c, "failed", Ret("not_found", 0))
                  /\ UNCHANGED queue
           ELSE IF enabled(opts.strict, defaults.strict) /\ unknown_fields(raw) # {}
             THEN /\ ExitEarly(p, c, "failed", Ret("unknown_fields", 0))
                  /\ UNCHANGED queue
           ELSE IF /\ enabled(opts.no_plan_edit, defaults.no_plan_edit)
                   /\ structural_edit(payload)
             THEN /\ ExitEarly(p, c, "failed", Ret("plan_edit_blocked", 0))
                  /\ UNCHANGED queue
           ELSE IF ~validate_update_payload(disk, payload)
             THEN /\ ExitEarly(p, c, "failed", Ret("update_error", 0))
                  /\ UNCHANGED queue
           ELSE IF enabled(opts.dry_run, defaults.dry_run)
             THEN /\ IF apply_update_ok(disk, payload)
                       THEN ExitEarly(p, c, "done", Ret("dry_run", 0))
                       ELSE ExitEarly(p, c, "failed", Ret("update_error", 0))
                  /\ UNCHANGED queue
           ELSE /\ cmd' = [cmd EXCEPT ![p] = c]
                /\ mem' = [mem EXCEPT ![p] = disk]
                /\ EnterQueue(p)
                /\ UNCHANGED ret
    /\ UNCHANGED <<disk, lock_file, lock_info, tracker_file, clock, ticks, status_calls, save_vars, arg, res>>

\* planloop alert: load, enter acquire_lock
BeginAlert(p, id, level, close) ==
    /\ MayBegin(p)
    /\ cmd' = [cmd EXCEPT ![p] = AlertCmd(id, level, close)]
    /\ mem' = [mem EXCEPT ![p] = disk]
    /\ EnterQueue(p)
    /\ UNCHANGED <<disk, lock_file, lock_info, tracker_file, clock, ticks, ret, status_calls, save_vars, arg, res>>

\* a direct caller of acquire_lock with its own timeout and an empty body
BeginLock(p, timeout) ==
    /\ MayBegin(p)
    /\ cmd' = [cmd EXCEPT ![p] = LockCmd(timeout)]
    /\ EnterQueue(p)
    /\ UNCHANGED <<disk, lock_file, lock_info, tracker_file, clock, ticks, mem, ret, status_calls, save_vars, arg, res>>

\* one iteration of the loop of acquire_lock
Scan(p) ==
    /\ pc[p] = "waiting"
    /\ LET timeout == cmd[p].timeout
           entries == prune_stale_entries(queue, clock, timeout)
           head == queue_head(entries)
           should_track == head # NoHead /\ head # p /\ Cardinality(entries) > 1
           tr == register_queue_head(tracker[p], head, should_track)
           detected == should_track /\ tr.queue_stall_counter >= QUEUE_STALL_THRESHOLD
           st == IF detected THEN [detected |-> TRUE, head |-> head] ELSE stall[p]
           timed_out == timeout = 0 \/ clock - start[p] > timeout
           holder == IF timeout = 0 THEN Unnamed
                     ELSE IF lock_file /\ lock_info # NoHolder THEN lock_info
                     ELSE "unknown"
       IN  /\ tracker_file' = tr
           /\ IF head = p /\ ~lock_file
                THEN \* os.open(O_CREAT | O_EXCL) succeeds: break, emit, yield
                     /\ lock_file' = TRUE
                     /\ lock_info' = p
                     /\ queue' = entries
                     /\ disk' = IF st.detected THEN emit_queue_stall_signal(disk) ELSE disk
                     /\ pc' = [pc EXCEPT ![p] = "held"]
                     /\ tracker' = [tracker EXCEPT ![p] = new_tracker]
                     /\ stall' = [stall EXCEPT ![p] = NoStall]
                     /\ UNCHANGED <<cmd, mem, start, ret>>
              ELSE IF timed_out
                THEN \* TimeoutError, through the finally block
                     /\ Leave(p, entries, "failed", TimeoutError(holder))
                     /\ UNCHANGED disk
              ELSE \* time.sleep(SLEEP_INTERVAL); continue
                   /\ tr.queue_stall_counter <= MaxStallCounter
                   /\ queue' = entries
                   /\ tracker' = [tracker EXCEPT ![p] = tr]
                   /\ stall' = [stall EXCEPT ![p] = st]
                   /\ UNCHANGED <<disk, lock_file, lock_info, pc, cmd, mem, start, ret>>
    /\ UNCHANGED <<clock, ticks, status_calls, save_vars, arg, res>>

\* the acquiring iteration of the loop up to os.open: .lock exists,
\* .lock_info is not written yet
OpenLock(p) ==
    /\ pc[p] = "waiting"
    /\ LET entries == prune_stale_entries(queue, clock, cmd[p].timeout)
           head == queue_head(entries)
           should_track == head # NoHead /\ head # p /\ Cardinality(entries) > 1
           tr == register_queue_head(tracker[p], head, should_track)
       IN  /\ head = p /\ ~lock_file
           /\ tracker_file' = tr
           /\ lock_file' = TRUE
           /\ queue' = entries
           /\ tracker' = [tracker EXCEPT ![p] = tr]
    /\ pc' = [pc EXCEPT ![p] = "opened"]
    /\ UNCHANGED <<disk, lock_info, clock, ticks, cmd, mem, start, stall, ret,
                   status_calls, save_vars, arg, res>>

\* the rest of the acquiring iteration: info_path.write_text, break, the
\* stall signal, yield
WriteLockInfo(p) ==
    /\ pc[p] = "opened"
    /\ lock_info' = p
    /\ disk' = IF stall[p].detected THEN emit_queue_stall_signal(disk) ELSE disk
    /\ pc' = [pc EXCEPT ![p] = "held"]
    /\ tracker' = [tracker EXCEPT ![p] = new_tracker]
    /\ stall' = [stall EXCEPT ![p] = NoStall]
    /\ UNCHANGED <<lock_file, queue, tracker_file, clock, ticks, cmd, mem, start, ret,
                   status_calls, save_vars, arg, res>>

\* an iteration of the loop that does not acquire
ScanWait(p) == Scan(p) /\ pc'[p] # "held"

\* an update that saves before it validates
UpdateBody_save_before_validate(p) ==
    LET payload == model_validate(cmd[p].payload)
        new == apply_update(mem[p], payload)
    IN  IF ~apply_update_ok(mem[p], payload)
          THEN /\ Leave(p, queue, "failed", Ret("update_error", 0))
               /\ UNCHANGED disk
        ELSE IF ~validate_state(new)
          THEN /\ disk' = new
               /\ Leave(p, queue, "failed", Ret("validation_error", 0))
        ELSE /\ disk' = new
             /\ Leave(p, queue, "done", Ret("ok", new.version))

\* the body of `with acquire_lock(...)` in update, then the finally block
UpdateBody(p) ==
    LET payload == model_validate(cmd[p].payload)
        new == apply_update(mem[p], payload)
    IN  IF ~apply_update_ok(mem[p], payload)
          THEN /\ Leave(p, queue, "failed", Ret("update_error", 0))
               /\ UNCHANGED disk
        ELSE IF ~validate_state(new)
          THEN /\ Leave(p, queue, "failed", Ret("validation_error", 0))
               /\ UNCHANGED disk
        ELSE /\ disk' = new
             /\ Leave(p, queue, "done", Ret("ok", new.version))

\* the body of `with acquire_lock(...)` in alert, then the finally block
AlertBody(p) ==
    LET c == cmd[p]
        ok == IF c.close THEN close_signal_ok(mem[p], c.id)
                         ELSE open_signal_ok(mem[p], Signal(c.id, c.level, TRUE))
        new == IF c.close THEN close_signal(mem[p], c.id)
                          ELSE open_signal(mem[p], Signal(c.id, c.level, TRUE))
    IN  IF ~ok
          THEN /\ Leave(p, queue, "failed", Ret("signal_error", 0))
               /\ UNCHANGED disk
        ELSE IF ~validate_state(new)
          THEN /\ Leave(p, queue, "failed", Ret("validation_error", 0))
               /\ UNCHANGED disk
        ELSE /\ disk' = new
             /\ Leave(p, queue, "done", Ret("ok", 0))

\* the protected operation of the lock holder and its release
RunBody(p) ==
    /\ pc[p] = "held"
    /\ CASE cmd[p].kind = "update" -> UpdateBody(p)
         [] cmd[p].kind = "alert" -> AlertBody(p)
         [] OTHER -> /\ Leave(p, queue, "done", Ret("ok", 0))
                     /\ UNCHANGED disk
    /\ UNCHANGED <<tracker_file, clock, ticks, status_calls, save_vars, arg, res>>

\* a caller of check_deadlock(state, session_dir, threshold): the state is
\* freshly loaded from state.json or the one an earlier check returned
CheckDeadlock(p, threshold, fresh) ==
    /\ pc[p] = "idle"
    /\ tracker_file.no_progress_counter < MaxNoProgress
    /\ LET st == IF fresh THEN disk ELSE mem[p]
       IN  /\ tracker_file' = check_deadlock_tracker(tracker_file, st)
           /\ mem' = [mem EXCEPT ![p] = check_deadlock_state(tracker_file, st, threshold)]
    /\ pc' = [pc EXCEPT ![p] = "done"]
    /\ cmd' = [cmd EXCEPT ![p] = CheckCmd(threshold, fresh)]
    /\ ret' = [ret EXCEPT ![p] = Ret("ok", 0)]
    /\ UNCHANGED <<disk, lock_file, lock_info, queue, clock, ticks, start, tracker,
                   stall, status_calls, save_vars, arg, res>>

\* get_lock_queue_status in status: the queue files after its pruning
status_queue_view ==
    IF validate_state(disk)
      THEN prune_stale_entries(queue, clock, DEFAULT_TIMEOUT)
      ELSE queue

\* what status prints: now and the signals of the loaded state
StatusReport(st) ==
    [status |-> "ok", version |-> 0, now |-> st.now, signals |-> st.signals]

\* planloop status run by the agent p, which reads the output
StatusCall(p) ==
    /\ pc[p] = "idle"
    /\ status_calls < MaxStatusCalls
    /\ status_calls' = status_calls + 1
    /\ queue' = status_queue_view
    /\ ret' = [ret EXCEPT ![p] = IF validate_state(disk) THEN StatusReport(disk)
                                  ELSE Ret("validation_error", 0)]
    /\ UNCHANGED <<disk, lock_file, lock_info, tracker_file, clock, ticks, pc, cmd,
                   mem, start, tracker, stall, save_vars, arg, res>>

\* planloop status: load, validate, read-side queue view with its pruning
Status ==
    /\ queue' = status_queue_view
    /\ UNCHANGED <<disk, lock_file, lock_info, tracker_file, clock, ticks, pc, cmd,
                   mem, start, tracker, stall, ret, status_calls, save_vars, arg, res>>

\* the process dies while waiting or holding: its files stay behind
Crash(p) ==
    /\ pc[p] \in {"waiting", "held"}
    /\ Exit(p, "crashed", Ret("crashed", 0))
    /\ UNCHANGED <<disk, lock_file, lock_info, queue, tracker_file, clock, ticks,
                   status_calls, save_vars, arg, res>>

\* the wall clock advances
Tick(d) ==
    /\ ticks < MaxTicks
    /\ clock' = clock + d
    /\ ticks' = ticks + 1
    /\ UNCHANGED <<disk, lock_file, lock_info, queue, tracker_file, pc, cmd, mem,
                   start, tracker, stall, ret, status_calls, save_vars, arg, res>>

Init ==
    /\ InitSession
    /\ arg = [tasks |-> <<>>, signals |-> <<>>]
    /\ res = NoRes

\* the command line: update, alert and status on one session
Next ==
    \/ \E p \in CmdProcs, payload \in UpdatePayloads, dry_run \in {"unset", "on"} :
          BeginUpdate(p, payload, CliOpts("", dry_run, "unset", "unset"), no_config)
    \/ \E p \in CmdProcs, id \in AlertIds, close \in BOOLEAN :
          BeginAlert(p, id, "blocker", close)
    \/ \E p \in CmdProcs : Scan(p)
    \/ \E p \in CmdProcs : RunBody(p)
    \/ Status
    \/ \E d \in TickSteps : Tick(d)

Spec == Init /\ [][Next]_vars

\* callers of acquire_lock with any timeout, status readers and crashes
NextLock ==
    \/ \E p \in Procs, timeout \in Timeouts : BeginLock(p, timeout)
    \/ \E p \in Procs : Scan(p)
    \/ \E p \in Procs : RunBody(p)
    \/ \E p \in Procs : Crash(p)
    \/ Status
    \/ \E d \in TickSteps : Tick(d)

SpecLock == Init /\ [][NextLock]_vars

\* callers of acquire_lock that keep running: a waiting caller goes on
\* polling, a holder finishes its body and the clock goes on

\* the scan of p now would take the lock: p is the head of the entries its
\* scan keeps and the lock file is absent
CanAcquire(p) ==
    /\ pc[p] = "waiting"
    /\ ~lock_file
    /\ queue_head(prune_stale_entries(queue, clock, cmd[p].timeout)) = p

\* a waiting caller polls every SLEEP_INTERVAL, a fraction of the unit of
\* the clock: the clock does not pass a caller whose next scan takes the lock
TickLive(d) ==
    /\ \A p \in Procs : ~CanAcquire(p)
    /\ Tick(d)

NextLive ==
    \/ \E p \in Procs, timeout \in Timeouts : BeginLock(p, timeout)
    \/ \E p \in Procs : Scan(p)
    \/ \E p \in Procs : RunBody(p)
    \/ \E d \in TickSteps : TickLive(d)

SpecLive ==
    /\ Init
    /\ [][NextLive]_vars
    /\ \A p \in Procs : WF_vars(Scan(p)) /\ WF_vars(RunBody(p))
    /\ WF_vars(\E d \in TickSteps : TickLive(d))

\* ------------------------------------------ one agent, update after update
\* add_tasks of one or two tasks, depends_on any ids up to MaxTasks
SeqAdds ==
    UNION {[1..n -> {AddTaskInput("a", NoType, deps) : deps \in SUBSET (1..MaxTasks)}]
              : n \in 0..2}

\* no status patch, or one patch of a known or unknown task id
SeqPatches ==
    {<<>>} \cup {<<TaskStatusPatch(i, st, NoTitle)>> :
                    i \in 1..(MaxTasks + 1), st \in {"IN_PROGRESS", "DONE"}}

SeqPayloads == {UpdatePayload(NoVersion, t, a) : t \in SeqPatches, a \in SeqAdds}

\* the agent runs its next command
Restart(p) ==
    /\ pc[p] \in {"done", "failed"}
    /\ pc' = [pc EXCEPT ![p] = "idle"]
    /\ cmd' = [cmd EXCEPT ![p] = NoCmd]
    /\ ret' = [ret EXCEPT ![p] = NoRet]
    /\ UNCHANGED <<disk, lock_file, lock_info, queue, tracker_file, clock, ticks,
                   mem, start, tracker, stall, status_calls, save_vars, arg, res>>

NextSeq ==
    \/ \E payload \in SeqPayloads, dry_run \in {"unset", "on"} :
          /\ Len(disk.tasks) + Len(payload.add_tasks) <= MaxTasks
          /\ disk.version < MaxVersion
          /\ BeginUpdate("p1", payload, CliOpts("", dry_run, "unset", "unset"), no_config)
    \/ Scan("p1")
    \/ RunBody("p1")
    \/ Restart("p1")

SpecSeq == Init /\ [][NextSeq]_vars

\* ------------------- callers of acquire_lock, each file write its own step
NextFiles ==
    \/ \E p \in CmdProcs, timeout \in Timeouts : BeginLock(p, timeout)
    \/ \E p \in CmdProcs : ScanWait(p)
    \/ \E p \in CmdProcs : OpenLock(p)
    \/ \E p \in CmdProcs : WriteLockInfo(p)
    \/ \E p \in CmdProcs : RunBody(p)
    \/ Status
    \/ \E d \in TickSteps : Tick(d)

SpecFiles == Init /\ [][NextFiles]_vars

\* ----------------------------------------------- deadlock checks, updates
\* thresholds of check_deadlock: the one of the tests and the default
Thresholds == {3, DEADLOCK_THRESHOLD}

NextDeadlock ==
    \/ \E threshold \in Thresholds, fresh \in BOOLEAN :
          CheckDeadlock("p2", threshold, fresh)
    \/ Restart("p2")
    \/ /\ Len(disk.tasks) < MaxTasks
       /\ BeginUpdate("p1", PayloadAdd, CliOpts("", "unset", "unset", "unset"), no_config)
    \/ Scan("p1")
    \/ RunBody("p1")
    \/ Restart("p1")

SpecDeadlock == Init /\ [][NextDeadlock]_vars

\* ------------------- an agent polling status, deadlock checks and updates
NextStatus ==
    \/ StatusCall("p3")
    \/ CheckDeadlock("p2", DEADLOCK_THRESHOLD, TRUE)
    \/ Restart("p2")
    \/ /\ Len(disk.tasks) < MaxTasks
       /\ BeginUpdate("p1", PayloadAdd, CliOpts("", "unset", "unset", "unset"), no_config)
    \/ Scan("p1")
    \/ RunBody("p1")
    \/ Restart("p1")

SpecStatus == Init /\ [][NextStatus]_vars

\* --------------------- saves of state.json, each write of the file a step
\* the body of update or alert reaches save_session_state
Saves(p) ==
    CASE cmd[p].kind = "update" ->
           LET payload == model_validate(cmd[p].payload)
           IN  /\ apply_update_ok(mem[p], payload)
               /\ validate_state(apply_update(mem[p], payload))
      [] cmd[p].kind = "alert" ->
           LET c == cmd[p]
           IN  IF c.close
                 THEN /\ close_signal_ok(mem[p], c.id)
                      /\ validate_state(close_signal(mem[p], c.id))
                 ELSE /\ open_signal_ok(mem[p], Signal(c.id, c.level, TRUE))
                      /\ validate_state(open_signal(mem[p], Signal(c.id, c.level, TRUE)))
      [] OTHER -> FALSE

\* the state that the body hands to save_session_state
SavedState(p) ==
    CASE cmd[p].kind = "update" -> apply_update(mem[p], model_validate(cmd[p].payload))
      [] cmd[p].kind = "alert" ->
           IF cmd[p].close THEN close_signal(mem[p], cmd[p].id)
           ELSE open_signal(mem[p], Signal(cmd[p].id, cmd[p].level, TRUE))
      [] OTHER -> mem[p]

\* the body up to the open of state_path.write_text: the file is truncated
OpenStateFile(p) ==
    /\ pc[p] = "held"
    /\ Saves(p)
    /\ state_json' = EmptyText
    /\ mem' = [mem EXCEPT ![p] = SavedState(p)]
    /\ pc' = [pc EXCEPT ![p] = "saving"]
    /\ UNCHANGED <<disk, lock_file, lock_info, queue, tracker_file, clock, ticks, cmd,
                   start, tracker, stall, ret, status_calls, registry, loaded, arg, res>>

\* one write of state_path.write_text; after the last one state.json holds
\* the new state
WriteStateFile(p) ==
    /\ pc[p] = "saving"
    /\ state_json.len < TextWrites
    /\ state_json' = write_text_step(state_json, mem[p])
    /\ disk' = IF state_json.len + 1 = TextWrites THEN mem[p] ELSE disk
    /\ UNCHANGED <<lock_file, lock_info, queue, tracker_file, clock, ticks, pc, cmd,
                   mem, start, tracker, stall, ret, status_calls, registry, loaded,
                   arg, res>>

\* the rest of the body after state.json is written, then the finally block
FinishSave(p) ==
    /\ pc[p] = "saving"
    /\ state_json.len = TextWrites
    /\ Leave(p, queue, "done",
             Ret("ok", IF cmd[p].kind = "update" THEN mem[p].version ELSE 0))
    /\ UNCHANGED <<disk, tracker_file, clock, ticks, status_calls, save_vars, arg, res>>

\* a body that raises before save_session_state
FailBody(p) == ~Saves(p) /\ RunBody(p)

\* a reader: _load_session reads state.json without the lock
LoadSession(p) ==
    /\ pc[p] = "idle"
    /\ pc' = [pc EXCEPT ![p] = "done"]
    /\ cmd' = [cmd EXCEPT ![p] = [kind |-> "load"]]
    /\ ret' = [ret EXCEPT ![p] = model_validate_json(state_json)]
    /\ UNCHANGED <<disk, lock_file, lock_info, queue, tracker_file, clock, ticks, mem,
                   start, tracker, stall, status_calls, save_vars, arg, res>>

NextSave ==
    \/ /\ Len(disk.tasks) < MaxTasks
       /\ BeginUpdate("p1", PayloadAdd, CliOpts("", "unset", "unset", "unset"), no_config)
    \/ \E close \in BOOLEAN : BeginAlert("p2", "ci1", "blocker", close)
    \/ \E p \in CmdProcs : Scan(p)
    \/ \E p \in CmdProcs : OpenStateFile(p)
    \/ \E p \in CmdProcs : WriteStateFile(p)
    \/ \E p \in CmdProcs : FinishSave(p)
    \/ \E p \in CmdProcs : FailBody(p)
    \/ \E p \in CmdProcs : Restart(p)
    \/ LoadSession("p3")
    \/ Restart("p3")

SpecSave == Init /\ [][NextSave]_vars

\* ------------------------------ the registry, saves of different sessions
\* a second session, which its first save enters in the registry
NewSessionId == "s3"

\* sorted(entries, key=last_updated_at, reverse=True): a stable sort, so
\* entries of the same last_updated_at keep their order
RECURSIVE sort_registry(_)
sort_registry(list) ==
    IF list = <<>> THEN <<>>
    ELSE LET latest == Max({list[i].last_updated_at : i \in DOMAIN list})
             first == Min({i \in DOMAIN list : list[i].last_updated_at = latest})
         IN  <<list[first]>>
             \o sort_registry(SubSeq(list, 1, first - 1)
                              \o SubSeq(list, first + 1, Len(list)))

\* upsert_session on the list that load_registry returned: what it saves
upsert_session(list, summary) ==
    sort_registry(Append(SelectSeq(list, LAMBDA e : e.session # summary.session),
                         summary))

SaveCmd(session, summary) == [kind |-> "save", session |-> session, summary |-> summary]

\* save_session_state of a session up to load_registry in upsert_session;
\* the state saved was updated at the current time
LoadRegistry(p, session) ==
    /\ pc[p] = "idle"
    /\ pc' = [pc EXCEPT ![p] = "upserting"]
    /\ cmd' = [cmd EXCEPT ![p] = SaveCmd(session, SessionSummary(session, clock))]
    /\ loaded' = [loaded EXCEPT ![p] = registry]
    /\ UNCHANGED <<disk, lock_file, lock_info, queue, tracker_file, clock, ticks, mem,
                   start, tracker, stall, ret, status_calls, state_json, registry,
                   arg, res>>

\* the rest of upsert_session: filter, append, sort, save_registry
SaveRegistry(p) ==
    /\ pc[p] = "upserting"
    /\ registry' = upsert_session(loaded[p], cmd[p].summary)
    /\ loaded' = [loaded EXCEPT ![p] = <<>>]
    /\ pc' = [pc EXCEPT ![p] = "done"]
    /\ ret' = [ret EXCEPT ![p] = Ret("ok", 0)]
    /\ UNCHANGED <<disk, lock_file, lock_info, queue, tracker_file, clock, ticks, cmd,
                   mem, start, tracker, stall, status_calls, state_json, arg, res>>

\* the process p1 saves the session of the model, p2 the second session
NextRegistry ==
    \/ LoadRegistry("p1", SessionId)
    \/ LoadRegistry("p2", NewSessionId)
    \/ \E p \in CmdProcs : SaveRegistry(p)
    \/ \E p \in CmdProcs : Restart(p)
    \/ \E d \in TickSteps : Tick(d)

SpecRegistry == Init /\ [][NextRegistry]_vars

\* ------------------------------------- one agent, every option of update
\* what a payload changes: tasks, update_tasks, add_tasks, context_notes,
\* next_steps, artifacts
CliBody(tasks, update_tasks, add_tasks, context_notes, next_steps, artifacts) ==
    [tasks |-> tasks, update_tasks |-> update_tasks, add_tasks |-> add_tasks,
     context_notes |-> context_notes, next_steps |-> next_steps,
     artifacts |-> artifacts]

CliBodies ==
    {CliBody(<<>>, <<>>, <<>>, <<>>, <<>>, <<>>),
     CliBody(<<TaskStatusPatch(1, "DONE", NoTitle)>>, <<>>, <<>>, <<>>, <<>>, <<>>),
     CliBody(<<TaskStatusPatch(1, NoStatus, "b")>>, <<>>, <<>>, <<>>, <<>>, <<>>),
     CliBody(<<TaskStatusPatch(1, "IN_PROGRESS", NoTitle),
               TaskStatusPatch(MaxTasks + 1, "DONE", NoTitle)>>,
             <<>>, <<>>, <<>>, <<>>, <<>>),
     CliBody(<<>>, <<UpdateTaskInput(1, "b", NoType, NoStatus)>>, <<>>, <<>>, <<>>, <<>>),
     CliBody(<<>>, <<UpdateTaskInput(1, NoTitle, "fix", "DONE")>>, <<>>, <<>>, <<>>, <<>>),
     CliBody(<<TaskStatusPatch(1, "DONE", NoTitle)>>,
             <<UpdateTaskInput(MaxTasks + 1, "b", NoType, NoStatus)>>,
             <<>>, <<>>, <<>>, <<>>),
     CliBody(<<>>, <<>>, <<AddTaskInput("a", NoType, {})>>, <<>>, <<>>, <<>>),
     CliBody(<<>>, <<>>, <<AddTaskInput("a", "doc", {1})>>, <<>>, <<>>, <<>>),
     CliBody(<<>>, <<>>, <<>>, <<"note">>, <<>>, <<>>),
     CliBody(<<>>, <<>>, <<>>, <<>>, <<"step">>, <<>>),
     CliBody(<<>>, <<>>, <<>>, <<>>, <<>>, <<"artifact">>)}

\* the rest of the JSON and --session: last_seen_version, session, the keys
\* that are no field of UpdatePayload ("done" stands for "done": true), and
\* the option
CliEnvelope(last_seen_version, session, extra, option) ==
    [last_seen_version |-> last_seen_version, session |-> session,
     extra |-> extra, option |-> option]

CliEnvelopes ==
    {CliEnvelope(NoVersion, SessionId, {}, ""),
     CliEnvelope(StrVersion(<<>>), SessionId, {}, ""),
     CliEnvelope(StrVersion(<<1>>), SessionId, {}, ""),
     CliEnvelope(StrVersion(<<2>>), SessionId, {}, SessionId),
     CliEnvelope(IntVersion(1), SessionId, {}, ""),
     CliEnvelope(IntVersion(2), SessionId, {}, ""),
     CliEnvelope(NoVersion, OtherSessionId, {}, ""),
     CliEnvelope(NoVersion, OtherSessionId, {}, SessionId),
     CliEnvelope(NoVersion, SessionId, {"done"}, ""),
     CliEnvelope(NoVersion, SessionId, {"foo"}, ""),
     CliEnvelope(StrVersion(<<1>>), SessionId, {"done", "foo"}, "")}

\* the JSON of a body in an envelope
CliRaw(body, env) ==
    [UpdatePayload(env.last_seen_version, body.tasks, body.add_tasks)
        EXCEPT !.session = env.session,
               !.update_tasks = body.update_tasks,
               !.context_notes = body.context_notes,
               !.next_steps = body.next_steps,
               !.artifacts = body.artifacts,
               !.extra = env.extra]

\* the config sets every safe mode, or none
CliDefaults ==
    {d \in SafeModeDefaults : d.dry_run = d.no_plan_edit /\ d.no_plan_edit = d.strict}

NextCli ==
    \/ /\ pc["p1"] = "idle"
       /\ disk.version < MaxVersion
       /\ \E body \in CliBodies, env \in CliEnvelopes, defaults \in CliDefaults,
             dry_run \in FlagValues, no_plan_edit \in FlagValues, strict \in FlagValues :
             /\ Len(disk.tasks) + Len(body.add_tasks) <= MaxTasks
             /\ BeginUpdate("p1", CliRaw(body, env),
                            CliOpts(env.option, dry_run, no_plan_edit, strict), defaults)
    \/ Scan("p1")
    \/ RunBody("p1")
    \/ Restart("p1")

SpecCli == Init /\ [][NextCli]_vars

\* ------------------------------------------- specification of compute_now
\* task lists as the update pipeline builds them: ids 1..n in list order
ArgTaskLists ==
    UNION {[1..n -> [status : TaskStatus, depends_on : SUBSET (1..MaxArgTasks)]]
              : n \in 0..MaxArgTasks}

ArgTasks(f) == [i \in DOMAIN f |-> Task(i, "t", "feature", f[i].status, f[i].depends_on)]

ArgSignalLists ==
    UNION {[1..n -> [level : SignalLevel, open : BOOLEAN]] : n \in 0..MaxArgSignals}

ArgSignalIds == <<"s1", "s2", "s3", "s4">>

ArgSignals(f) == [i \in DOMAIN f |-> Signal(ArgSignalIds[i], f[i].level, f[i].open)]

InitNow ==
    /\ InitSession
    /\ \E ft \in ArgTaskLists, fs \in ArgSignalLists :
           arg = [tasks |-> ArgTasks(ft), signals |-> ArgSignals(fs)]
    /\ res = NoRes

\* state.compute_now()
ComputeNowCall ==
    /\ res = NoRes
    /\ res' = compute_now(arg.tasks, arg.signals)
    /\ UNCHANGED <<arg, session_vars>>

NextNow == ComputeNowCall

SpecNow == InitNow /\ [][NextNow]_vars

\* ------------------------------------------ specification of apply_update
MaxApplyId == 4
MaxApplyTasks == 2
MaxApplyAdds == 2

\* task lists with distinct ids in any order, not necessarily 1..n
ApplyIdLists ==
    UNION {{f \in [1..n -> 1..MaxApplyId] : \A i, j \in 1..n : f[i] = f[j] => i = j}
              : n \in 0..MaxApplyTasks}

ApplyTasks(f) == [i \in DOMAIN f |-> Task(f[i], "t", "feature", "TODO", {})]

\* add_tasks lists: title, type given or not, depends_on
ApplyAddLists ==
    UNION {[1..n -> {AddTaskInput("a", NoType, {}), AddTaskInput("a", "fix", {1})}]
              : n \in 0..MaxApplyAdds}

\* last_seen_version: absent, the version of the state, another version
ApplyVersions == {NoVersion, StrVersion(<<1>>), StrVersion(<<9, 9, 9>>)}

InitApply ==
    /\ InitSession
    /\ \E f \in ApplyIdLists, adds \in ApplyAddLists, seen \in ApplyVersions :
           arg = [state |-> SessionState(1, ApplyTasks(f), <<>>,
                                         compute_now(ApplyTasks(f), <<>>)),
                  payload |-> UpdatePayload(seen, <<>>, adds)]
    /\ res = NoRes

\* apply_update(state, payload): the state it returns, or its UpdateError
ApplyUpdateCall ==
    /\ res = NoRes
    /\ res' = IF apply_update_ok(arg.state, arg.payload)
                THEN apply_update(arg.state, arg.payload)
                ELSE Ret("update_error", 0)
    /\ UNCHANGED <<arg, session_vars>>

NextApply == ApplyUpdateCall

SpecApply == InitApply /\ [][NextApply]_vars

\* ---------------------------------------- specification of validate_state
MaxValidateTasks == 3
MaxValidateId == 3

\* task lists with any ids and any depends_on over the ids
ValidateTaskLists ==
    UNION {[1..n -> [id : 1..MaxValidateId, depends_on : SUBSET (1..MaxValidateId)]]
              : n \in 0..MaxValidateTasks}

ValidateTasks(f) == [i \in DOMAIN f |-> Task(f[i].id, "t", "feature", "TODO", f[i].depends_on)]

\* the stored now is the computed one, or idle
InitValidate ==
    /\ InitSession
    /\ \E f \in ValidateTaskLists, sync \in BOOLEAN :
           arg = [state |-> SessionState(1, ValidateTasks(f), <<>>,
                                         IF sync THEN compute_now(ValidateTasks(f), <<>>)
                                         ELSE Now("idle", NoTask, NoSignal))]
    /\ res = NoRes

\* validate_state(state): whether it raised, the messages, the state afterwards
ValidateStateCall ==
    /\ res = NoRes
    /\ res' = [raised |-> ~validate_state(arg.state),
               errors |-> validate_state_errors(arg.state),
               state |-> arg.state]
    /\ UNCHANGED <<arg, session_vars>>

NextValidate == ValidateStateCall

SpecValidate == InitValidate /\ [][NextValidate]_vars

\* -------------------------------- specification of get_lock_queue_status
MaxQueueFiles == 3
MaxQueueTime == 2

QueueAgents == {"a", "b"}

\* queue directories: each file name is absent or holds an entry
QueueDirs ==
    {files \in SUBSET {QueueFile(id, agent, t) :
                          id \in 1..MaxQueueFiles, agent \in QueueAgents,
                          t \in 0..MaxQueueTime} :
        \A a, b \in files : a.id = b.id => a = b}

InitQueueView ==
    /\ InitSession
    /\ \E files \in QueueDirs, agent \in QueueAgents \cup {NoAgent, "c"},
          max_age \in 0..MaxQueueTime :
           arg = [files |-> files, now |-> MaxQueueTime, agent |-> agent,
                  max_age |-> max_age]
    /\ res = NoRes

\* get_lock_queue_status(session_dir, agent, max_age)
QueueStatusCall ==
    /\ res = NoRes
    /\ res' = get_lock_queue_status(arg.files, arg.now, arg.agent, arg.max_age)
    /\ UNCHANGED <<arg, session_vars>>

NextQueueView == QueueStatusCall

SpecQueueView == InitQueueView /\ [][NextQueueView]_vars

\* ------------------------------------------------- the self-test harness
Scenarios == {"clean_run", "ci_blocker", "dependency_chain", "signal_and_tasks"}

\* the check of now after a step: "any" and AnyTask where the code does not
\* compare, reloaded when it checks load_session_state_from_disk
AnyTask == 0 - 1
NowCheck(reason, task_id, reloaded) ==
    [reason |-> reason, task_id |-> task_id, reloaded |-> reloaded]
NoCheck == NowCheck("any", AnyTask, FALSE)

\* the steps of the scenarios: _apply_update, open_signal, close_signal
UpdateStep(add_tasks, status_changes, context_notes, next_steps, final_summary, check) ==
    [kind |-> "update", add_tasks |-> add_tasks, status_changes |-> status_changes,
     context_notes |-> context_notes, next_steps |-> next_steps,
     final_summary |-> final_summary, signal_id |-> NoSignal, check |-> check]
SignalStep(kind, signal_id, check) ==
    [kind |-> kind, add_tasks |-> <<>>, status_changes |-> <<>>,
     context_notes |-> <<>>, next_steps |-> <<>>, final_summary |-> NoSummary,
     signal_id |-> signal_id, check |-> check]

scenario_clean_run ==
    <<UpdateStep(<<AddTaskInput("Add button", "feature", {}),
                   AddTaskInput("Write docs", "doc", {})>>, <<>>,
                 <<"Clean scenario initialized">>, <<"Finish both tasks">>,
                 NoSummary, NoCheck),
      UpdateStep(<<>>, <<TaskStatusPatch(1, "DONE", NoTitle),
                         TaskStatusPatch(2, "DONE", NoTitle)>>,
                 <<>>, <<>>, "UI polish complete",
                 NowCheck("completed", AnyTask, TRUE))>>

scenario_ci_blocker ==
    <<UpdateStep(<<AddTaskInput("Fix failing test", "fix", {})>>, <<>>,
                 <<"CI scenario bootstrapped">>, <<>>, NoSummary, NoCheck),
      SignalStep("open", "ci-selftest", NowCheck("ci_blocker", AnyTask, FALSE)),
      SignalStep("close", "ci-selftest", NowCheck("task", AnyTask, FALSE))>>

scenario_dependency_chain ==
    <<UpdateStep(<<AddTaskInput("Add coverage tests", "test", {}),
                   AddTaskInput("Refactor module", "refactor", {1})>>, <<>>,
                 <<"Coverage chain initialized">>, <<>>, NoSummary,
                 NowCheck("task", 1, FALSE)),
      UpdateStep(<<>>, <<TaskStatusPatch(1, "DONE", NoTitle)>>, <<>>, <<>>,
                 NoSummary, NowCheck("any", 2, FALSE)),
      UpdateStep(<<>>, <<TaskStatusPatch(2, "DONE", NoTitle)>>, <<>>, <<>>,
                 "Coverage pipeline wrapped", NowCheck("completed", AnyTask, FALSE))>>

scenario_signal_and_tasks ==
    <<UpdateStep(<<AddTaskInput("Initial Task 1", "feature", {}),
                   AddTaskInput("Initial Task 2", "feature", {}),
                   AddTaskInput("Initial Task 3", "feature", {})>>, <<>>,
                 <<"Scenario initialized with tasks">>, <<>>, NoSummary,
                 NowCheck("task", 1, FALSE)),
      UpdateStep(<<>>, <<TaskStatusPatch(1, "IN_PROGRESS", NoTitle)>>, <<>>, <<>>,
                 NoSummary, NowCheck("task", 1, FALSE)),
      SignalStep("open", "ci-blocker-for-tasks", NowCheck("ci_blocker", AnyTask, FALSE)),
      SignalStep("close", "ci-blocker-for-tasks", NowCheck("task", 1, FALSE)),
      UpdateStep(<<>>, <<TaskStatusPatch(1, "DONE", NoTitle)>>, <<>>, <<>>,
                 NoSummary, NowCheck("task", 2, FALSE)),
      UpdateStep(<<>>, <<TaskStatusPatch(2, "DONE", NoTitle)>>, <<>>, <<>>,
                 NoSummary, NowCheck("task", 3, FALSE)),
      UpdateStep(<<>>, <<TaskStatusPatch(3, "DONE", NoTitle)>>, <<>>, <<>>,
                 "All tasks completed after signal handling",
                 NowCheck("completed", AnyTask, TRUE))>>

\* _SCENARIOS
ScenarioSteps(name) ==
    CASE name = "clean_run" -> scenario_clean_run
      [] name = "ci_blocker" -> scenario_ci_blocker
      [] name = "dependency_chain" -> scenario_dependency_chain
      [] OTHER -> scenario_signal_and_tasks

\* the payload that _apply_update of the harness builds
selftest_payload(state, step) ==
    [UpdatePayload(StrVersion(str(state.version)), step.status_changes, step.add_tasks)
        EXCEPT !.context_notes = step.context_notes,
               !.next_steps = step.next_steps,
               !.final_summary = step.final_summary]

\* the call of a step raises: UpdateError, ValueError or StateValidationError
step_raises(state, step) ==
    CASE step.kind = "update" ->
           \/ ~apply_update_ok(state, selftest_payload(state, step))
           \/ ~validate_state(apply_update(state, selftest_payload(state, step)))
      [] step.kind = "open" ->
           \/ ~open_signal_ok(state, Signal(step.signal_id, "blocker", TRUE))
           \/ ~validate_state(open_signal(state, Signal(step.signal_id, "blocker", TRUE)))
      [] OTHER ->
           \/ ~close_signal_ok(state, step.signal_id)
           \/ ~validate_state(close_signal(state, step.signal_id))

\* the state a step saves
step_state(state, step) ==
    CASE step.kind = "update" -> apply_update(state, selftest_payload(state, step))
      [] step.kind = "open" -> open_signal(state, Signal(step.signal_id, "blocker", TRUE))
      [] OTHER -> close_signal(state, step.signal_id)

\* the comparison after a step does not raise AssertionError
check_passes(check, state) ==
    /\ check.reason = "any" \/ state.now.reason = check.reason
    /\ check.task_id = AnyTask \/ state.now.task_id = check.task_id

\* a scenario of the harness: its status, the steps made, the state in
\* memory and the state.json of its session
ScenarioRun(status, step, state, saved) ==
    [status |-> status, step |-> step, state |-> state, saved |-> saved]

InitSelftest ==
    /\ InitSession
    /\ arg = [n \in Scenarios |-> ScenarioRun("ready", 0, initial_state, initial_state)]
    /\ res = NoRes

\* run_selftest takes the next scenario, which begins with create_session;
\* the scenarios share nothing, and the order of _SCENARIOS is left open
StartScenario(name) ==
    /\ res = NoRes
    /\ arg[name].status = "ready"
    /\ \A n \in Scenarios : arg[n].status # "running"
    /\ arg' = [arg EXCEPT ![name] = ScenarioRun("running", 0, initial_state, initial_state)]
    /\ UNCHANGED <<res, session_vars>>

\* the next step of the running scenario and the check that follows it
ScenarioStep(name) ==
    /\ arg[name].status = "running"
    /\ LET run == arg[name]
           steps == ScenarioSteps(name)
           step == steps[run.step + 1]
           new == step_state(run.state, step)
           \* the state compared: the one in memory, or state.json read back
           seen == IF step.check.reloaded
                     THEN model_validate_json(model_dump_json(new)).state
                     ELSE new
       IN  arg' = [arg EXCEPT ![name] =
                     IF step_raises(run.state, step)
                       THEN ScenarioRun("failed", run.step, run.state, run.saved)
                     ELSE IF ~check_passes(step.check, seen)
                       THEN ScenarioRun("failed", run.step + 1, new, new)
                     ELSE ScenarioRun(IF run.step + 1 = Len(steps) THEN "passed"
                                      ELSE "running", run.step + 1, new, new)]
    /\ UNCHANGED <<res, session_vars>>

\* run_selftest is through: the results, status ok when every scenario passed
SelftestReport ==
    /\ res = NoRes
    /\ \A n \in Scenarios : arg[n].status \in {"passed", "failed"}
    /\ res' = [status |-> IF \A n \in Scenarios : arg[n].status = "passed"
                            THEN "ok" ELSE "failed",
               scenarios |-> [n \in Scenarios |-> arg[n].status]]
    /\ UNCHANGED <<arg, session_vars>>

NextSelftest ==
    \/ \E name \in Scenarios : StartScenario(name)
    \/ \E name \in Scenarios : ScenarioStep(name)
    \/ SelftestReport

SpecSelftest == InitSelftest /\ [][NextSelftest]_vars

\* --------------------------------------------------------- claims C7, C8
OpenBlockers(signals) ==
    {i \in DOMAIN signals : signals[i].open /\ signals[i].level = "blocker"}

InProgress(tasks) == {i \in DOMAIN tasks : tasks[i].status = "IN_PROGRESS"}

\* TODO tasks all of whose depends_on targets are existing tasks with status DONE
ReadyTodo(tasks) ==
    {i \in DOMAIN tasks :
        /\ tasks[i].status = "TODO"
        /\ \A dep \in tasks[i].depends_on :
              \E j \in DOMAIN tasks : tasks[j].id = dep /\ tasks[j].status = "DONE"}

\* C7: compute_now returns the first open blocker signal if there is one,
\* whatever the tasks; otherwise the first IN_PROGRESS task; otherwise the
\* first TODO task whose dependencies are all existing DONE tasks. A task is
\* selected only in status IN_PROGRESS or TODO, and a TODO task only when
\* every dependency is DONE.
C7_ComputeNowPriority ==
    res # NoRes =>
      LET t == arg.tasks
          s == arg.signals
      IN  /\ OpenBlockers(s) # {} =>
                res = Now("ci_blocker", NoTask, s[Min(OpenBlockers(s))].id)
          /\ (OpenBlockers(s) = {} /\ InProgress(t) # {}) =>
                res = Now("task", t[Min(InProgress(t))].id, NoSignal)
          /\ (OpenBlockers(s) = {} /\ InProgress(t) = {} /\ ReadyTodo(t) # {}) =>
                res = Now("task", t[Min(ReadyTodo(t))].id, NoSignal)
          /\ res.reason = "task" =>
                \E i \in DOMAIN t :
                    /\ t[i].id = res.task_id
                    /\ t[i].status \in {"IN_PROGRESS", "TODO"}
                    /\ t[i].status = "TODO" =>
                          \A dep \in t[i].depends_on : \E j \in DOMAIN t :
                              t[j].id = dep /\ t[j].status = "DONE"

\* a closed blocker comes first, the open blocker after it is returned although
\* a task is IN_PROGRESS
C7_Witness ==
    /\ res # NoRes
    /\ Len(arg.signals) = 2
    /\ arg.signals[1].level = "blocker" /\ ~arg.signals[1].open
    /\ InProgress(arg.tasks) # {}
    /\ res = Now("ci_blocker", NoTask, "s2")

\* C8: with no open blocker, no IN_PROGRESS task and no ready TODO task,
\* compute_now returns completed exactly when the task list is non-empty and
\* every task is DONE, OUT_OF_SCOPE or SKIPPED, and idle otherwise.
C8_CompletedOrIdle ==
    (/\ res # NoRes
     /\ OpenBlockers(arg.signals) = {}
     /\ InProgress(arg.tasks) = {}
     /\ ReadyTodo(arg.tasks) = {}) =>
        IF /\ Len(arg.tasks) > 0
           /\ \A i \in DOMAIN arg.tasks :
                 arg.tasks[i].status \in {"DONE", "OUT_OF_SCOPE", "SKIPPED"}
          THEN res = Now("completed", NoTask, NoSignal)
          ELSE res = Now("idle", NoTask, NoSignal)

\* a SKIPPED task and a TODO task waiting on it: idle, not completed
C8_Witness ==
    /\ res = Now("idle", NoTask, NoSignal)
    /\ Len(arg.tasks) = 2
    /\ arg.tasks[1].status = "SKIPPED"
    /\ arg.tasks[2].status = "TODO" /\ arg.tasks[2].depends_on = {1}
    /\ OpenBlockers(arg.signals) = {}

\* ------------------------------------------------------------- claim C1
\* the callers inside the body protected by acquire_lock
Holders == {p \in Procs : pc[p] = "held"}

\* C1: at most one caller is between the acquisition and the release of the
\* lock of the session at any time.
C1_MutualExclusion == Cardinality(Holders) <= 1

\* ------------------------------------------------------------- claim C6
\* C6: after any sequence of successful updates the persisted task ids are
\* pairwise distinct, every depends_on target is the id of an existing task
\* other than the task itself, and the dependency graph is acyclic (the tasks
\* can be ranked so that every task ranks above each of its dependencies).
C6_TaskGraphValid ==
    LET t == disk.tasks
        ids == {t[i].id : i \in DOMAIN t}
    IN  /\ \A i, j \in DOMAIN t : i # j => t[i].id # t[j].id
        /\ \A i \in DOMAIN t : \A dep \in t[i].depends_on :
              dep # t[i].id /\ \E j \in DOMAIN t : t[j].id = dep
        /\ \E rank \in [ids -> 1..Len(t)] :
              \A i \in DOMAIN t : \A dep \in t[i].depends_on \cap ids :
                  rank[dep] < rank[t[i].id]

\* two successful updates built a dependency: task 2 waits on task 1, DONE
C6_Witness ==
    /\ disk.version >= 3
    /\ Len(disk.tasks) = 2
    /\ disk.tasks[2].depends_on = {1}
    /\ disk.tasks[1].status = "DONE"
    /\ pc["p1"] = "done" /\ ret["p1"].status = "ok"

\* ------------------------------------------------------- claims C2 .. C5
\* the commands that reported success and wrote the session
Succeeded == {p \in Procs : pc[p] = "done" /\ ret[p].status = "ok"
                              /\ cmd[p].kind \in {"update", "alert"}}

\* C2: when two mutating commands both report success, state.json holds the
\* effect of each: every task added, every status set, every signal opened
\* or closed.
C2_NoLostEffect ==
    /\ Len(disk.tasks) >=
          Cardinality({p \in Succeeded : cmd[p].kind = "update"
                                          /\ Len(cmd[p].payload.add_tasks) > 0})
    /\ \A p \in Succeeded :
          /\ cmd[p].kind = "update" =>
                \A k \in DOMAIN cmd[p].payload.tasks :
                    \E i \in DOMAIN disk.tasks :
                        /\ disk.tasks[i].id = cmd[p].payload.tasks[k].id
                        /\ disk.tasks[i].status = cmd[p].payload.tasks[k].status
          /\ cmd[p].kind = "alert" =>
                \E i \in DOMAIN disk.signals : disk.signals[i].id = cmd[p].id

\* C3: the versions returned to successful updates increase in completion
\* order, and no two successful updates return the same version.
C3_VersionsIncrease ==
    [][\A p \in Procs :
          (pc[p] = "held" /\ pc'[p] = "done" /\ cmd[p].kind = "update") =>
              \A q \in Succeeded :
                  cmd[q].kind = "update" => ret[q].version < ret'[p].version]_vars

\* C4: a successful update makes the persisted version one greater than it
\* was, and no other step changes the persisted version.
C4_VersionStep ==
    [][IF \E p \in Procs : pc[p] = "held" /\ pc'[p] = "done" /\ cmd[p].kind = "update"
         THEN disk'.version = disk.version + 1
         ELSE disk'.version = disk.version]_vars

EnqueuedBefore(q, p) ==
    \/ start[q] < start[p]
    \/ start[q] = start[p] /\ arrival(q) < arrival(p)

\* p is waiting and has not waited longer than its timeout
WithinTimeout(p) == pc[p] = "waiting" /\ clock - start[p] <= cmd[p].timeout

\* C9: a caller never acquires the lock before a caller that enqueued
\* earlier and is still waiting within its timeout.
C9_FifoOrder ==
    [][\A p, q \in Procs :
          (pc[p] = "waiting" /\ pc'[p] = "held" /\ q # p) =>
              ~(WithinTimeout(q) /\ EnqueuedBefore(q, p))]_vars

\* p waits within its timeout with its entry in the queue, an agent has
\* crashed, every other entry of the queue was left by a crashed agent and is
\* older than the timeout of p, and no other caller is waiting or holding
BehindCrashedOnly(p) ==
    /\ WithinTimeout(p)
    /\ \E e \in queue : e.id = p
    /\ \E c \in Procs : pc[c] = "crashed"
    /\ \A q \in Procs \ {p} : pc[q] \notin {"waiting", "held"}
    /\ \A e \in queue : e.id # p =>
          pc[e.id] = "crashed" /\ clock - e.requested_at > cmd[p].timeout

TimesOut(p) == pc[p] = "waiting" /\ pc'[p] = "failed"

\* C11: a caller that gives up while the lock is held raises a timeout error
\* that names the current holder, and its own queue entry is gone when the
\* call returns.
C11_TimeoutNamesHolder ==
    [][\A p \in Procs :
          TimesOut(p) =>
              /\ ret'[p].status = "timeout"
              /\ lock_file => ret'[p].holder = lock_info
              /\ \A e \in queue' : e.id # p]_vars

\* C12: a lock acquisition that fails with a timeout leaves .lock and
\* .lock_info as they were, so the holder still holds the lock.
C12_TimeoutKeepsLock ==
    [][\A p \in Procs :
          TimesOut(p) => lock_file' = lock_file /\ lock_info' = lock_info]_vars

\* C13: when a caller that acquired the lock leaves the acquire_lock scope,
\* normally or because the protected operation raised, .lock, .lock_info and
\* its queue entry are removed; if no other caller is waiting or holding, the
\* queue is empty and the lock free, so the next acquisition succeeds at once.
C13_ReleasedOnEveryExit ==
    [][\A p \in Procs :
          (pc[p] = "held" /\ pc'[p] \in {"done", "failed"}) =>
              /\ ~lock_file'
              /\ lock_info' = NoHolder
              /\ \A e \in queue' : e.id # p
              /\ (\A q \in Procs \ {p} : pc'[q] \notin {"waiting", "held"}) =>
                     queue' = {}]_vars

\* the update of p1 failed validation inside the lock, the alert of p2 that
\* came afterwards holds the lock
C13_Witness ==
    /\ pc["p1"] = "failed" /\ ret["p1"].status = "validation_error"
    /\ pc["p2"] = "held" /\ cmd["p2"].kind = "alert"
    /\ lock_info = "p2"

\* ----------------------------------------------------- claims C14 .. C19
\* p runs `planloop update` in this step, from the command line to the exit
\* or to the lock queue
Begins(p) == pc[p] = "idle" /\ pc'[p] # "idle" /\ cmd'[p].kind = "update"

\* the update of p ends inside the lock in this step
Completes(p) == pc[p] = "held" /\ pc'[p] \in {"done", "failed"} /\ cmd[p].kind = "update"

\* a safe mode is in effect: the flag when given, otherwise the config default
InEffect(flag, default) == flag = "on" \/ (flag = "unset" /\ default)
DryRun(c) == InEffect(c.opts.dry_run, c.defaults.dry_run)
NoPlanEdit(c) == InEffect(c.opts.no_plan_edit, c.defaults.no_plan_edit)
Strict(c) == InEffect(c.opts.strict, c.defaults.strict)

\* the top-level keys an update recognizes
Recognized ==
    {"session", "last_seen_version", "tasks", "add_tasks", "update_tasks",
     "context_notes", "next_steps", "artifacts", "agent", "final_summary", "done"}

\* the command names the session of the model and gives no version
PlainEnvelope(c) ==
    /\ c.opts.session \in {"", SessionId}
    /\ c.payload.session = SessionId
    /\ c.payload.last_seen_version = NoVersion

VersionText(v) == IF v.kind = "int" THEN str(v.value) ELSE v.value

\* C15: an update whose last_seen_version is set and differs from the string
\* form of the current version fails and the session keeps its version.
C15_VersionMismatchFails ==
    [][\A p \in Procs :
          (/\ Begins(p)
           /\ cmd'[p].payload.last_seen_version # NoVersion
           /\ VersionText(cmd'[p].payload.last_seen_version) # str(disk.version)) =>
              pc'[p] = "failed" /\ disk'.version = disk.version]_vars

\* C16: an update with dry_run in effect ends at once, leaves state.json as
\* it was, takes no lock and leaves no queue entry.
C16_DryRunWritesNothing ==
    [][\A p \in Procs :
          (Begins(p) /\ DryRun(cmd'[p])) =>
              /\ pc'[p] \in {"done", "failed"}
              /\ pc'[p] = "done" => ret'[p].status = "dry_run"
              /\ disk' = disk
              /\ mem'[p] = mem[p]
              /\ lock_file' = lock_file /\ lock_info' = lock_info
              /\ queue' = queue /\ tracker_file' = tracker_file]_vars

\* the config default switched dry_run on, the payload adds a task, the
\* session still has none
C16_Witness ==
    /\ pc["p1"] = "done" /\ ret["p1"].status = "dry_run"
    /\ cmd["p1"].opts.dry_run = "unset" /\ cmd["p1"].defaults.dry_run
    /\ Len(cmd["p1"].payload.add_tasks) = 1
    /\ disk.tasks = <<>> /\ disk.version = 1 /\ queue = {} /\ ~lock_file

\* the plan of a state: id, title and type of every task
Plan(st) == [i \in DOMAIN st.tasks |->
                <<st.tasks[i].id, st.tasks[i].title, st.tasks[i].type>>]

\* C17: under no_plan_edit no update adds, removes, retitles or retags a
\* task, whichever payload field carries the edit.
C17_NoPlanEditKeepsPlan ==
    [][\A p \in Procs :
          (Completes(p) /\ NoPlanEdit(cmd[p])) => Plan(disk') = Plan(disk)]_vars

\* the update carries nothing but status patches
StatusOnly(payload) ==
    /\ Len(payload.tasks) > 0
    /\ \A k \in DOMAIN payload.tasks : payload.tasks[k].status # NoStatus
    /\ Len(payload.add_tasks) = 0 /\ Len(payload.update_tasks) = 0
    /\ Len(payload.context_notes) = 0 /\ Len(payload.next_steps) = 0
    /\ Len(payload.artifacts) = 0

\* C18: with no_plan_edit in effect an update with a non-empty add_tasks,
\* update_tasks, context_notes, next_steps or artifacts is rejected; an
\* update of status patches only, on known tasks, is accepted and applied.
C18_NoPlanEditGate ==
    [][\A p \in Procs :
          /\ (/\ Begins(p) /\ NoPlanEdit(cmd'[p])
               /\ \/ Len(cmd'[p].payload.add_tasks) > 0
                  \/ Len(cmd'[p].payload.update_tasks) > 0
                  \/ Len(cmd'[p].payload.context_notes) > 0
                  \/ Len(cmd'[p].payload.next_steps) > 0
                  \/ Len(cmd'[p].payload.artifacts) > 0) =>
                 pc'[p] = "failed" /\ disk' = disk
          /\ (/\ Begins(p) /\ NoPlanEdit(cmd'[p]) /\ StatusOnly(cmd'[p].payload)
               /\ PlainEnvelope(cmd'[p]) /\ ~DryRun(cmd'[p])
               /\ cmd'[p].payload.extra \subseteq Recognized) =>
                 pc'[p] = "waiting"
          /\ (/\ Completes(p) /\ NoPlanEdit(cmd[p]) /\ StatusOnly(cmd[p].payload)
               /\ \A k \in DOMAIN cmd[p].payload.tasks :
                     \E i \in DOMAIN disk.tasks :
                         disk.tasks[i].id = cmd[p].payload.tasks[k].id) =>
                 /\ pc'[p] = "done"
                 /\ LET last == cmd[p].payload.tasks[Len(cmd[p].payload.tasks)]
                    IN  \E i \in DOMAIN disk'.tasks :
                            /\ disk'.tasks[i].id = last.id
                            /\ disk'.tasks[i].status = last.status]_vars

\* the config default switched no_plan_edit on; the status patch was applied
C18_Witness ==
    /\ pc["p1"] = "done" /\ ret["p1"].status = "ok"
    /\ cmd["p1"].opts.no_plan_edit = "unset" /\ cmd["p1"].defaults.no_plan_edit
    /\ cmd["p1"].payload.tasks = <<TaskStatusPatch(1, "DONE", NoTitle)>>
    /\ disk.tasks[1].status = "DONE"
    /\ disk.version = ret["p1"].version

\* C19: with strict in effect an update with a top-level key outside the
\* recognized set is rejected and changes nothing, and one whose keys are all
\* recognized is not rejected for its keys; without strict the unknown keys
\* do not stop the update.
C19_StrictGate ==
    [][\A p \in Procs :
          Begins(p) =>
              LET c == cmd'[p]
                  outside == c.payload.extra \ Recognized
              IN  /\ (Strict(c) /\ outside # {}) =>
                         /\ pc'[p] = "failed"
                         /\ disk' = disk /\ queue' = queue
                  /\ (~Strict(c) \/ outside = {}) => ret'[p].status # "unknown_fields"
                  /\ (/\ ~Strict(c) /\ outside # {} /\ PlainEnvelope(c)
                       /\ ~DryRun(c) /\ ~NoPlanEdit(c)) =>
                         pc'[p] = "waiting"]_vars

\* the config default switched strict on; the key foo stopped the update
C19_Witness ==
    /\ pc["p1"] = "failed" /\ ret["p1"].status = "unknown_fields"
    /\ cmd["p1"].opts.strict = "unset" /\ cmd["p1"].defaults.strict
    /\ cmd["p1"].payload.extra = {"foo"}
    /\ Len(cmd["p1"].payload.tasks) = 1
    /\ Len(disk.tasks) = 1 /\ disk.tasks[1].status = "TODO"

\* -------------------------------------------------------------- claim C20
\* C20: the k-th entry of add_tasks gets the id max(existing ids) + k, or k
\* when there is no task; every new id is above every existing id and the
\* ids of the result are pairwise distinct.
C20_NewTaskIds ==
    res # NoRes =>
        LET old == arg.state.tasks
            n == Len(arg.payload.add_tasks)
            base == IF Len(old) = 0 THEN 0
                    ELSE CHOOSE m \in {old[i].id : i \in DOMAIN old} :
                             \A i \in DOMAIN old : old[i].id <= m
        IN  /\ Len(res.tasks) = Len(old) + n
            /\ \A i \in DOMAIN old : res.tasks[i].id = old[i].id
            /\ \A k \in 1..n :
                  /\ res.tasks[Len(old) + k].id = base + k
                  /\ \A i \in DOMAIN old : res.tasks[Len(old) + k].id > old[i].id
            /\ \A i, j \in DOMAIN res.tasks :
                  res.tasks[i].id = res.tasks[j].id => i = j

\* tasks 3 and 1, two additions: the new tasks are 4 and 5
C20_Witness ==
    /\ res # NoRes
    /\ Len(arg.state.tasks) = 2
    /\ arg.state.tasks[1].id = 3 /\ arg.state.tasks[2].id = 1
    /\ Len(arg.payload.add_tasks) = 2
    /\ res.tasks[3].id = 4 /\ res.tasks[4].id = 5

\* ------------------------------------------------------- claims C21 .. C30
\* the task ids a payload names in tasks and update_tasks
NamedIds(payload) ==
    {payload.tasks[k].id : k \in DOMAIN payload.tasks}
        \cup {payload.update_tasks[k].id : k \in DOMAIN payload.update_tasks}

\* C21: a successful update changes in state.json only what its payload
\* names: other tasks keep title, type, status and depends_on, context_notes
\* and next_steps are replaced only by a non-empty list, artifacts are only
\* appended, final_summary changes only when given, the signals stay.
C21_UpdateFrame ==
    [][\A p \in Procs :
          (Completes(p) /\ pc'[p] = "done") =>
              LET payload == cmd[p].payload
              IN  /\ \A i \in DOMAIN disk.tasks :
                        disk.tasks[i].id \notin NamedIds(payload) =>
                            i \in DOMAIN disk'.tasks /\ disk'.tasks[i] = disk.tasks[i]
                  /\ disk'.context_notes =
                        IF Len(payload.context_notes) > 0 THEN payload.context_notes
                        ELSE disk.context_notes
                  /\ disk'.next_steps =
                        IF Len(payload.next_steps) > 0 THEN payload.next_steps
                        ELSE disk.next_steps
                  /\ disk'.artifacts = disk.artifacts \o payload.artifacts
                  /\ payload.final_summary = NoSummary =>
                        disk'.final_summary = disk.final_summary
                  /\ disk'.signals = disk.signals]_vars

\* C22: a successful update whose payload carries done = true leaves the
\* persisted session marked done, and no other update marks it done.
C22_DoneMarksSession ==
    [][\A p \in Procs :
          (Completes(p) /\ pc'[p] = "done") =>
              /\ "done" \in cmd[p].payload.extra => disk'.done
              /\ "done" \notin cmd[p].payload.extra => disk'.done = disk.done]_vars

\* the alert of p ends inside the lock in this step
AlertCompletes(p) ==
    pc[p] = "held" /\ pc'[p] \in {"done", "failed"} /\ cmd[p].kind = "alert"

SignalIds(st) == {st.signals[i].id : i \in DOMAIN st.signals}

\* C23: opening a signal whose id is in the signal list fails, closing one
\* whose id is not in the list fails, and a failed alert leaves state.json
\* as it was and releases the lock.
C23_SignalErrors ==
    [][\A p \in Procs :
          AlertCompletes(p) =>
              /\ (~cmd[p].close /\ cmd[p].id \in SignalIds(disk)) => pc'[p] = "failed"
              /\ (cmd[p].close /\ cmd[p].id \notin SignalIds(disk)) => pc'[p] = "failed"
              /\ pc'[p] = "failed" =>
                     disk' = disk /\ ~lock_file' /\ lock_info' = NoHolder]_vars

\* C24: no step removes or reorders a signal of state.json, and a closed
\* signal stays in the list with open = false.
C24_SignalsKept ==
    [][\A i \in DOMAIN disk.signals :
          /\ i \in DOMAIN disk'.signals
          /\ disk'.signals[i].id = disk.signals[i].id
          /\ ~disk.signals[i].open => ~disk'.signals[i].open]_vars

\* p calls check_deadlock in this step
Checks(p) == pc[p] = "idle" /\ pc'[p] = "done" /\ cmd'[p].kind = "check"

\* the state p passes to check_deadlock in this step
Checked(p) == IF cmd'[p].fresh THEN disk ELSE mem[p]

\* C25: a deadlock check whose state hash equals the stored last_state_hash
\* adds exactly 1 to no_progress_counter and keeps the hash; one whose hash
\* differs stores the new hash and sets the counter to 0; both are read from
\* and written to deadlock.json.
C25_NoProgressCount ==
    [][\A p \in Procs :
          Checks(p) =>
              IF compute_hash(Checked(p)) = tracker_file.last_state_hash
                THEN /\ tracker_file'.no_progress_counter =
                            tracker_file.no_progress_counter + 1
                     /\ tracker_file'.last_state_hash = tracker_file.last_state_hash
                ELSE /\ tracker_file'.no_progress_counter = 0
                     /\ tracker_file'.last_state_hash = compute_hash(Checked(p))]_vars

\* after an update the count started again and went to 2
C25_Witness ==
    /\ pc["p2"] = "done" /\ cmd["p2"].kind = "check"
    /\ disk.version = 2
    /\ tracker_file.last_state_hash = compute_hash(disk)
    /\ tracker_file.no_progress_counter = 2

\* C26: on a fresh session that nothing changes, the 10th status call reports
\* now.reason = deadlocked and a deadlock signal.
C26_TenthStatusDeadlocked ==
    (status_calls = DEADLOCK_THRESHOLD /\ disk = initial_state) =>
        /\ ret["p3"].now.reason = "deadlocked"
        /\ \E i \in DOMAIN ret["p3"].signals : ret["p3"].signals[i].id = "deadlock"

\* C27: a deadlock check that ends with the counter at or above the threshold
\* returns a state with now = {deadlocked, deadlock} and exactly one signal
\* with id deadlock; one that ends below leaves signals and now as given.
C27_EscalationIdempotent ==
    [][\A p \in Procs :
          Checks(p) =>
              IF tracker_file'.no_progress_counter >= cmd'[p].threshold
                THEN /\ mem'[p].now = Now("deadlocked", NoTask, "deadlock")
                     /\ Cardinality({i \in DOMAIN mem'[p].signals :
                                        mem'[p].signals[i].id = "deadlock"}) = 1
                ELSE /\ mem'[p].signals = Checked(p).signals
                     /\ mem'[p].now = Checked(p).now]_vars

\* the check escalated on a state that an earlier check had escalated
C27_Witness ==
    /\ pc["p2"] = "done" /\ cmd["p2"].kind = "check" /\ ~cmd["p2"].fresh
    /\ tracker_file.no_progress_counter >= cmd["p2"].threshold
    /\ tracker_file.last_state_hash # NoHash
    /\ tracker_file.last_state_hash[1].now.reason = "deadlocked"
    /\ mem["p2"].now.reason = "deadlocked"

\* C29: only deadlock checks change the last_state_hash and the
\* no_progress_counter of deadlock.json; a lock acquisition never does.
C29_OnlyChecksWriteCounter ==
    [][(\A p \in Procs : ~Checks(p)) =>
          /\ tracker_file'.last_state_hash = tracker_file.last_state_hash
          /\ tracker_file'.no_progress_counter = tracker_file.no_progress_counter]_vars

\* C28: when a waiting caller has seen the same other agent, which holds the
\* lock, at the head of a queue of more than one entry for 5 consecutive
\* scans, a queue_stall blocker signal is in state.json, open, for the next
\* status call.
C28_StallSignalVisible ==
    \A p \in Procs :
        (/\ pc[p] = "waiting"
         /\ stall[p].detected
         /\ tracker[p].queue_stall_counter >= QUEUE_STALL_THRESHOLD
         /\ pc[stall[p].head] = "held"
         /\ \A q \in Procs \ {p, stall[p].head} : pc[q] = "idle") =>
            \E i \in DOMAIN disk.signals :
                /\ disk.signals[i].id = "queue_stall"
                /\ disk.signals[i].level = "blocker"
                /\ disk.signals[i].open

\* C30: in every state of the session directory .lock_info exists if and
\* only if .lock exists.
C30_LockInfoIffLock == lock_file <=> lock_info # NoHolder

\* ------------------------------------------------------ claims C31 .. C40
\* the step in which the reader p loads state.json
Loads(p) == pc[p] = "idle" /\ pc'[p] = "done" /\ cmd'[p].kind = "load"

\* C31: a reader that loads state.json while an update or alert persists
\* gets the complete previous state or the complete new state, never an
\* empty or partly written file.
C31_NoTornRead ==
    [][Loads("p3") =>
          /\ ret'["p3"].status = "loaded"
          /\ \/ ret'["p3"].state = disk
             \/ \E p \in CmdProcs : pc[p] = "saving" /\ ret'["p3"].state = mem[p]]_vars

\* the ids of a task list, and the ids its tasks depend on
TaskIds(tasks) == {tasks[i].id : i \in DOMAIN tasks}
DependsOn(tasks, id) == UNION {tasks[i].depends_on : i \in {i \in DOMAIN tasks : tasks[i].id = id}}

\* the ids reachable from id over depends_on in one step or more
RECURSIVE DependsOnWithin(_, _, _)
DependsOnWithin(tasks, S, n) ==
    IF n = 0 THEN S
    ELSE DependsOnWithin(tasks, S \cup UNION {DependsOn(tasks, x) : x \in S}, n - 1)

DuplicateId(tasks) == \E i, j \in DOMAIN tasks : i # j /\ tasks[i].id = tasks[j].id
UnknownDep(tasks) == \E i \in DOMAIN tasks : ~(tasks[i].depends_on \subseteq TaskIds(tasks))
SelfDep(tasks) == \E i \in DOMAIN tasks : tasks[i].id \in tasks[i].depends_on
DependencyCycle(tasks) ==
    \E id \in TaskIds(tasks) :
        id \in DependsOnWithin(tasks, DependsOn(tasks, id), Len(tasks))

\* C32: validate_state raises exactly when the state has a duplicate task
\* id, a depends_on target that is no task id, a task that depends on
\* itself, a dependency cycle, or a stored now that differs from
\* compute_now; the error has a message for every duplicate, every unknown
\* target, every self dependency, the cycle and the now it found, and the
\* state is the same afterwards.
C32_ValidateState ==
    res # NoRes =>
        LET tasks == arg.state.tasks
            stale == arg.state.now # compute_now(tasks, arg.state.signals)
        IN  /\ res.raised <=> \/ DuplicateId(tasks) \/ UnknownDep(tasks) \/ SelfDep(tasks)
                              \/ DependencyCycle(tasks) \/ stale
            /\ res.raised <=> res.errors # {}
            /\ \A id \in 1..MaxValidateId :
                  (\E i, j \in DOMAIN tasks : i # j /\ tasks[i].id = id /\ tasks[j].id = id)
                      <=> ValidationMessage("duplicate", id, 0) \in res.errors
            /\ \A id, dep \in 1..MaxValidateId :
                  /\ (id \in TaskIds(tasks) /\ dep \in DependsOn(tasks, id) \ TaskIds(tasks))
                        <=> ValidationMessage("unknown", id, dep) \in res.errors
                  /\ (id \in TaskIds(tasks) /\ dep = id /\ \E i \in DOMAIN tasks :
                          tasks[i].id = id /\ id \in tasks[i].depends_on)
                        <=> ValidationMessage("self", id, dep) \in res.errors
            /\ (~DuplicateId(tasks) /\ DependencyCycle(tasks)) =>
                  ValidationMessage("cycle", 0, 0) \in res.errors
            /\ ValidationMessage("cycle", 0, 0) \in res.errors => DependencyCycle(tasks)
            /\ stale <=> ValidationMessage("now", 0, 0) \in res.errors
            /\ res.state = arg.state

\* a state whose only flaw is a dependency cycle has been validated
C32_Witness ==
    /\ res # NoRes
    /\ res.raised
    /\ LET tasks == arg.state.tasks
       IN  /\ ~DuplicateId(tasks) /\ ~UnknownDep(tasks) /\ ~SelfDep(tasks)
           /\ DependencyCycle(tasks)
           /\ arg.state.now = compute_now(tasks, arg.state.signals)
           /\ res.errors = {ValidationMessage("cycle", 0, 0)}

\* C33: the read-side queue view deletes the entries older than max_age and
\* returns the others ordered by requested_at ascending, with position the
\* 1-based index of the first entry of the viewer, and none when no viewer is
\* given or the viewer has no entry.
C33_QueueView ==
    res # NoRes =>
        LET fresh == {e \in arg.files : arg.now - e.requested_at <= arg.max_age}
            mine == {i \in DOMAIN res.pending : res.pending[i].agent = arg.agent}
        IN  /\ res.files = fresh
            /\ Len(res.pending) = Cardinality(fresh)
            /\ {res.pending[i] : i \in DOMAIN res.pending} = fresh
            /\ \A i, j \in DOMAIN res.pending :
                  i < j => res.pending[i].requested_at <= res.pending[j].requested_at
            /\ IF arg.agent = NoAgent \/ mine = {}
                  THEN res.position = NoPosition
                  ELSE /\ res.position \in mine
                       /\ \A i \in mine : res.position <= i

\* a view that deleted a stale entry and placed the viewer second
C33_Witness ==
    /\ res # NoRes
    /\ res.files # arg.files
    /\ Len(res.pending) = 2
    /\ res.position = 2

\* the now that signal_and_tasks is to show after each of its steps
ExpectedNow ==
    <<Now("task", 1, NoSignal), Now("task", 1, NoSignal),
      Now("ci_blocker", NoTask, "ci-blocker-for-tasks"), Now("task", 1, NoSignal),
      Now("task", 2, NoSignal), Now("task", 3, NoSignal),
      Now("completed", NoTask, NoSignal)>>

\* C34: no scenario of the self-test fails on a fresh session, the harness
\* reports status ok with every scenario passed, and signal_and_tasks shows
\* task 1, task 1, the blocker, task 1, task 2, task 3 and completed after
\* its seven steps.
C34_SelftestPasses ==
    /\ \A n \in Scenarios : arg[n].status # "failed"
    /\ res # NoRes =>
          /\ res.status = "ok"
          /\ \A n \in Scenarios : res.scenarios[n] = "passed"
    /\ LET run == arg["signal_and_tasks"]
       IN  /\ run.step > 0 =>
                 run.state.now = ExpectedNow[run.step] /\ run.saved = run.state
           /\ run.status = "passed" => run.step = Len(ExpectedNow)

\* the harness has reported, after signal_and_tasks made its seven steps
C34_Witness ==
    /\ res # NoRes
    /\ res.status = "ok"
    /\ arg["signal_and_tasks"].step = 7
    /\ Len(arg["signal_and_tasks"].state.tasks) = 3

\* the step is a queue scan of the waiting caller p: its tracker changes or
\* it leaves the loop
Scans(p) ==
    /\ pc[p] = "waiting"
    /\ pc'[p] # "crashed"
    /\ tracker'[p] # tracker[p] \/ pc'[p] # "waiting"

\* C35: every queue scan of a waiting caller steps the tracker once: with
\* another caller at the head of a queue of more than one entry the counter
\* becomes 1 for a head other than the stored one and grows by 1 for the same
\* head; in every other scan the head is cleared and the counter is 0; the
\* scan reports the stall exactly when the counter it leaves is at or above
\* the threshold.
C35_StallCounterStep ==
    [][\A p \in Procs : Scans(p) =>
          LET scanned == prune_stale_entries(queue, clock, cmd[p].timeout)
              head == queue_head(scanned)
              tracked == head # NoHead /\ head # p /\ Cardinality(scanned) > 1
              after == tracker_file'
          IN  /\ tracked =>
                    /\ after.queue_head = head
                    /\ after.queue_stall_counter =
                          IF tracker[p].queue_head # head THEN 1
                          ELSE tracker[p].queue_stall_counter + 1
              /\ ~tracked =>
                    after.queue_head = NoHead /\ after.queue_stall_counter = 0
              /\ pc'[p] = "waiting" =>
                    /\ after.queue_stall_counter >= QUEUE_STALL_THRESHOLD =>
                          stall'[p] = [detected |-> TRUE, head |-> head]
                    /\ after.queue_stall_counter < QUEUE_STALL_THRESHOLD =>
                          stall'[p] = stall[p]]_vars

\* a waiter has counted the same head up to the threshold and holds the report
C35_Witness ==
    \E p \in Procs :
        /\ pc[p] = "waiting"
        /\ tracker[p].queue_stall_counter = QUEUE_STALL_THRESHOLD
        /\ tracker[p].queue_head \notin {NoHead, p}
        /\ stall[p] = [detected |-> TRUE, head |-> tracker[p].queue_head]

\* C36: apply_update raises UpdateError when the last_seen_version of the
\* payload differs from the version of the state.
C36_ApplyUpdateRejectsMismatch ==
    (/\ res # NoRes
     /\ arg.payload.last_seen_version # NoVersion
     /\ arg.payload.last_seen_version # StrVersion(str(arg.state.version)))
        => res = Ret("update_error", 0)

\* the waiter w is past its timeout (at once with timeout 0) while the lock
\* is still held
ExpiredBehindHolder(w) ==
    /\ pc[w] = "waiting"
    /\ cmd[w].timeout = 0 \/ clock - start[w] > cmd[w].timeout
    /\ \E h \in Procs \ {w} : pc[h] = "held"

\* C37: a caller waiting behind the holder of the lock comes to hold the
\* lock itself, after the holder is through, unless its timeout runs out
\* while the lock is still held.
C37_WaiterAcquires ==
    \A h \in Procs : \A w \in Procs \ {h} :
        (pc[h] = "held" /\ pc[w] = "waiting")
            ~> (\/ pc[w] = "held" /\ pc[h] # "held"
                \/ pc[w] = "done"
                \/ ExpiredBehindHolder(w))

\* C39: the queue entry of a live caller that is within its own timeout
\* leaves the queue only when that caller leaves acquire_lock itself; no
\* scan of another caller and no status call deletes it.
C39_EntryKeptWithinTimeout ==
    [][\A e \in queue :
          (/\ pc[e.id] \in {"waiting", "held"}
           /\ clock - e.requested_at <= cmd[e.id].timeout
           /\ e \notin queue')
              => pc'[e.id] \in {"done", "failed"}]_vars

\* the update or alert of p saves state.json in this step
Persists(p) == (Completes(p) \/ AlertCompletes(p)) /\ pc'[p] = "done"

\* the now of a state fits its tasks and signals
NowSound(st) ==
    /\ st.now.reason = "task" =>
          \E i \in DOMAIN st.tasks :
              /\ st.tasks[i].id = st.now.task_id
              /\ \/ st.tasks[i].status = "IN_PROGRESS"
                 \/ /\ st.tasks[i].status = "TODO"
                    /\ \A dep \in st.tasks[i].depends_on :
                          \E j \in DOMAIN st.tasks :
                              st.tasks[j].id = dep /\ st.tasks[j].status = "DONE"
    /\ st.now.reason = "ci_blocker" =>
          \E i \in DOMAIN st.signals :
              /\ st.signals[i].id = st.now.signal_id
              /\ st.signals[i].open
              /\ st.signals[i].level = "blocker"
    /\ OpenBlockers(st.signals) # {} => st.now.reason # "task"

\* C38: in every state that an update or an alert persists, a now of reason
\* task names an existing task that is IN_PROGRESS, or TODO with all of its
\* dependencies DONE, a now of reason ci_blocker names an existing open
\* blocker signal, and now is no task while a blocker signal is open.
C38_PersistedNowSound ==
    [][\A p \in CmdProcs : Persists(p) => NowSound(disk')]_vars

\* an alert has persisted its blocker as now in a session with a task to do
C38_Witness ==
    /\ \E p \in Succeeded : cmd[p].kind = "alert" /\ ~cmd[p].close
    /\ disk.now.reason = "ci_blocker"
    /\ \E i \in DOMAIN disk.tasks : disk.tasks[i].status = "TODO"

\* C40: once the save of a session is through, the registry holds exactly
\* one entry of that session, the summary that save wrote, and saves of
\* another session leave it there.
C40_RegistryComplete ==
    \A p \in CmdProcs :
        (pc[p] = "done" /\ cmd[p].kind = "save") =>
            /\ Cardinality({i \in DOMAIN registry :
                               registry[i].session = cmd[p].session}) = 1
            /\ \E i \in DOMAIN registry : registry[i] = cmd[p].summary

====
